---------------------------- MODULE Spec2Model ----------------------------
(***************************************************************************)
(* Compliance analysis engine: process / entity-type classification        *)
(* (core/analyzer.py), checklist requirement matching (core/checklist.py), *)
(* the red-flag rule evaluator (core/analyzer.py), the retrieval pipeline  *)
(* (core/retrieval.py) and the report builder (core/report.py).            *)
(*                                                                         *)
(* Text is modelled by TLA+ strings; Len, SubSeq, Tail and \o act on them  *)
(* character by character.  Regular expressions are restricted to literal  *)
(* patterns, optionally with backslash escapes as produced by re.escape    *)
(* (every pattern of the tables in the source is such a literal).  The     *)
(* alphabet is ASCII: str.lower() maps A-Z to a-z and nothing else.        *)
(* A confidence is the double the float additions of the code give: the   *)
(* double nearest to a number of tenths, or the double a number of steps   *)
(* below it.  A compliance score is a fraction [num, den]; a similarity    *)
(* score, a distance or a rerank score is a number of hundredths.          *)
(***************************************************************************)
EXTENDS Integers, Sequences, FiniteSets, TLC

VARIABLES
    checklists,     \* ChecklistProcessor.checklists: the dict, in insertion order
    redflag_rules,  \* DocumentAnalyzer.redflag_rules: the dict, in insertion order
    rag,            \* DocumentRetriever.top_k, rerank_k, min_score
    pc,             \* name of the last completed call ("idle" after construction)
    inp,            \* the arguments of that call
    out,            \* its return value
    calls           \* the methods that call invoked, in order

vars == <<checklists, redflag_rules, rag, pc, inp, out, calls>>

---------------------------------------------------------------------------
(* Strings *)

Uppers == "ABCDEFGHIJKLMNOPQRSTUVWXYZ"
Lowers == "abcdefghijklmnopqrstuvwxyz"

\* the character at position i of s, as a one-character string
CharAt(s, i) == SubSeq(s, i, i)

\* the lower-case letter of each upper-case letter
LowerOf == [c \in {CharAt(Uppers, i) : i \in 1..26} |->
               CharAt(Lowers, CHOOSE i \in 1..26 : CharAt(Uppers, i) = c)]

LowerChar(c) == IF c \in DOMAIN LowerOf THEN LowerOf[c] ELSE c

RECURSIVE Lower(_)
\* str.lower(): every character mapped, the string halved at each step
Lower(s) ==
    IF Len(s) <= 1 THEN LowerChar(s)
    ELSE LET mid == Len(s) \div 2
         IN  Lower(SubSeq(s, 1, mid)) \o Lower(SubSeq(s, mid + 1, Len(s)))

\* p occurs in t at position i (1-based)
OccursAt(p, t, i) ==
    i >= 1 /\ i + Len(p) - 1 <= Len(t) /\ SubSeq(t, i, i + Len(p) - 1) = p

\* Python's `p in t` for strings
Contains(p, t) == \E i \in 1..(Len(t) - Len(p) + 1) : OccursAt(p, t, i)

RECURSIVE JoinFrom(_, _, _)
JoinFrom(strs, sep, i) ==
    IF i > Len(strs) THEN ""
    ELSE IF i = Len(strs) THEN strs[i]
    ELSE strs[i] \o sep \o JoinFrom(strs, sep, i + 1)

\* sep.join(strs)
Join(strs, sep) == JoinFrom(strs, sep, 1)

\* the least element of a non-empty set of integers
Min(S) == CHOOSE x \in S : \A y \in S : x <= y

RECURSIVE SplitFrom(_, _)
SplitFrom(s, i) ==
    LET starts == {j \in i..Len(s) : CharAt(s, j) # " "}
    IN  IF starts = {} THEN <<>>
        ELSE LET b == Min(starts)
                 blanks == {j \in b..Len(s) : CharAt(s, j) = " "}
                 e == IF blanks = {} THEN Len(s) + 1 ELSE Min(blanks)
             IN  <<SubSeq(s, b, e - 1)>> \o SplitFrom(s, e)

\* str.split(): the maximal runs of non-blank characters
Split(s) == SplitFrom(s, 1)

RECURSIVE StripLeft(_, _)
StripLeft(s, chars) ==
    IF s # "" /\ Contains(CharAt(s, 1), chars) THEN StripLeft(Tail(s), chars) ELSE s

RECURSIVE StripRight(_, _)
StripRight(s, chars) ==
    IF s # "" /\ Contains(CharAt(s, Len(s)), chars)
    THEN StripRight(SubSeq(s, 1, Len(s) - 1), chars) ELSE s

\* str.strip(chars); str.strip() is Strip(s, " ")
Strip(s, chars) == StripRight(StripLeft(s, chars), chars)

---------------------------------------------------------------------------
(* Regular expressions, literal fragment *)

\* the characters re.escape puts a backslash before (those of the alphabet in use)
ReSpecial == " ()[]{}?*+-|^$\\.&~#"

RECURSIVE ReEscapeFrom(_, _)
ReEscapeFrom(s, i) ==
    IF i > Len(s) THEN ""
    ELSE (IF Contains(CharAt(s, i), ReSpecial) THEN "\\" ELSE "")
         \o CharAt(s, i) \o ReEscapeFrom(s, i + 1)

\* re.escape(s)
ReEscape(s) == ReEscapeFrom(s, 1)

RECURSIVE ReLiteralFrom(_, _)
ReLiteralFrom(p, i) ==
    IF i > Len(p) THEN ""
    ELSE IF CharAt(p, i) = "\\" /\ i < Len(p)
         THEN CharAt(p, i + 1) \o ReLiteralFrom(p, i + 2)
         ELSE CharAt(p, i) \o ReLiteralFrom(p, i + 1)

\* the text a literal pattern matches: escapes removed
ReLiteral(p) == ReLiteralFrom(p, 1)

\* re.search(p, t) is not None
ReSearch(p, t) == Contains(ReLiteral(p), t)

\* re.search(p, t, re.IGNORECASE) is not None
ReSearchI(p, t) == Contains(Lower(ReLiteral(p)), Lower(t))

\* re.search(p, folded, re.IGNORECASE) is not None, for a text that is already
\* lower case (folded = Lower(folded)): only the pattern is left to fold
ReSearchFolded(p, folded) == Contains(Lower(ReLiteral(p)), folded)

RECURSIVE CountFrom(_, _, _)
\* the scan of findall from position i: the leftmost match, then on after its end
CountFrom(lit, t, i) ==
    LET found == {j \in i..(Len(t) - Len(lit) + 1) : OccursAt(lit, t, j)}
    IN  IF found = {} THEN 0 ELSE 1 + CountFrom(lit, t, Min(found) + Len(lit))

\* len(re.findall(p, folded, re.IGNORECASE)) for a text that is already lower
\* case: non-overlapping matches, left to right
ReFindAllCountFolded(p, folded) == CountFrom(Lower(ReLiteral(p)), folded, 1)

---------------------------------------------------------------------------
(* Inputs *)

\* bound on the number of documents passed to one call
MaxDocs == 2

Doc(filename, full_text) == [filename |-> filename, full_text |-> full_text]

\* the documents calls are made with
DocPool == <<
    Doc("articles_of_association.docx",
        "Articles of Association of a Private Company Limited by Shares"),
    Doc("register.docx", "Register of Members and Register of Directors"),
    Doc("annual.docx",
        "Annual Return with Annual Accounts for a company limited by guarantee"),
    Doc("contract.docx", "Employment Contract governed by UAE Federal Courts"),
    Doc("branch.docx",
        "Branch Office of a Foreign Company with Share Capital under ADGM Courts"),
    Doc("other.docx", "Some random document content"),
    Doc("minutes.docx", "Shareholder Resolution and Board"),
    Doc("resolution.docx", "Resolution on Name Reservation")
>>

SeqsUpTo(S, n) == UNION {[1..k -> S] : k \in 0..n}

DocLists == SeqsUpTo({DocPool[i] : i \in 1..Len(DocPool)}, MaxDocs)

RECURSIVE MapField(_, _, _)
MapField(records, field, i) ==
    IF i > Len(records) THEN <<>>
    ELSE <<records[i][field]>> \o MapField(records, field, i + 1)

\* [doc.get('full_text', '') for doc in documents]
FullTexts(documents) == MapField(documents, "full_text", 1)

\* [doc.get('filename', '') for doc in documents]
Filenames(documents) == MapField(documents, "filename", 1)

RECURSIVE SumSeq(_, _)
SumSeq(ns, i) == IF i > Len(ns) THEN 0 ELSE ns[i] + SumSeq(ns, i + 1)

---------------------------------------------------------------------------
(* Classifier: DocumentAnalyzer.detect_process, detect_entity_type *)

Entry(name, patterns) == [name |-> name, patterns |-> patterns]

\* self.process_patterns, in declaration order
process_patterns == <<
    Entry("Company Incorporation",
          <<"incorporation", "articles of association", "memorandum of association",
            "register of members", "register of directors", "ubo declaration",
            "name reservation">>),
    Entry("Employment",
          <<"employment contract", "employee handbook", "terms of employment",
            "er 2024", "employment regulations">>),
    Entry("Post Registration",
          <<"articles amendment", "shareholder resolution", "board resolution",
            "change of directors", "change of registered office">>),
    Entry("Annual Filings",
          <<"annual accounts", "annual return", "annual filing",
            "financial statements">>)
>>

GeneralReview == "General Review"

\* the score loop of detect_process for one table entry
ProcessScore(patterns, combined_text) ==
    SumSeq([k \in 1..Len(patterns) |-> ReFindAllCountFolded(patterns[k], combined_text)], 1)

\* process_scores, as the list of values in the dict's order
ProcessScores(documents) ==
    LET combined_text == Lower(Join(FullTexts(documents), " "))
    IN  [i \in 1..Len(process_patterns) |->
            ProcessScore(process_patterns[i].patterns, combined_text)]

RECURSIVE MaxLastFrom(_, _, _)
MaxLastFrom(scores, i, best) ==
    IF i > Len(scores) THEN best
    ELSE MaxLastFrom(scores, i + 1, IF scores[i] >= scores[best] THEN i ELSE best)

\* max() that keeps the last of several largest items
MaxLast(scores) == MaxLastFrom(scores, 2, 1)

RECURSIVE MaxFirstFrom(_, _, _)
MaxFirstFrom(scores, i, best) ==
    IF i > Len(scores) THEN best
    ELSE MaxFirstFrom(scores, i + 1, IF scores[i] > scores[best] THEN i ELSE best)

\* max(items, key=score): the index of the first item with the largest score
MaxFirst(scores) == MaxFirstFrom(scores, 2, 1)

detect_process(documents) ==
    LET process_scores == ProcessScores(documents)
        best_process == MaxFirst(process_scores)
    IN  IF Len(process_scores) > 0 /\ process_scores[best_process] > 0
        THEN process_patterns[best_process].name
        ELSE GeneralReview

\* entity_patterns of detect_entity_type, in declaration order
entity_patterns == <<
    Entry("Private Company Limited by Shares (Non-Financial)",
          <<"private company limited by shares", "limited by shares",
            "share capital", "shares issued">>),
    Entry("Private Company Limited by Guarantee (Non-Financial)",
          <<"limited by guarantee", "guarantee company", "no share capital">>),
    Entry("Branch (Non-Financial)",
          <<"branch office", "branch registration", "foreign company">>)
>>

DefaultEntityType == "Private Company Limited by Shares (Non-Financial)"

\* some pattern of the list matches the text
AnyPatternMatches(patterns, text) ==
    \E k \in 1..Len(patterns) : ReSearchFolded(patterns[k], text)

RECURSIVE EntityMostMatchesFrom(_, _, _)
EntityMostMatchesFrom(text, i, best) ==
    LET n(j) == Cardinality({k \in 1..Len(entity_patterns[j].patterns) :
                              ReSearchFolded(entity_patterns[j].patterns[k], text)})
    IN  IF i > Len(entity_patterns)
        THEN (IF n(best) > 0 THEN entity_patterns[best].name ELSE DefaultEntityType)
        ELSE EntityMostMatchesFrom(text, i + 1, IF n(i) > n(best) THEN i ELSE best)

\* detection by the largest number of matching patterns instead of the first match
EntityMostMatches(text, i) == EntityMostMatchesFrom(text, i + 1, i)

RECURSIVE EntityFirstMatch(_, _)
\* the loop of detect_entity_type from table entry i on
EntityFirstMatch(text, i) ==
    IF i > Len(entity_patterns) THEN DefaultEntityType
    ELSE IF AnyPatternMatches(entity_patterns[i].patterns, text)
         THEN entity_patterns[i].name
         ELSE EntityFirstMatch(text, i + 1)

detect_entity_type(documents) ==
    EntityFirstMatch(Lower(Join(FullTexts(documents), " ")), 1)

---------------------------------------------------------------------------
(* Python values *)

\* Optional[...]: None, or the value
None == <<>>
Some(x) == <<x>>

\* a dict is a record holding the keys that are present; {} has none
EmptyDict == [k \in {} |-> ""]

\* d.get(key, default)
Get(d, key, default) == IF key \in DOMAIN d THEN d[key] ELSE default

\* the elements of a set of integers in increasing order
SortedSeq(S) ==
    [k \in 1..Cardinality(S) |-> CHOOSE x \in S : Cardinality({y \in S : y < x}) = k - 1]

\* str(i) for the numbers in use
Str(i) == ToString(i)

---------------------------------------------------------------------------
(* Requirement matcher: ChecklistProcessor *)

\* _checklist_applies with the substring test in one direction only
ChecklistAppliesOneWay(checklist, entity_type) ==
    LET checklist_entity_type == Get(checklist, "entity_type", "")
    IN  IF checklist_entity_type = "" THEN TRUE
        ELSE \/ entity_type = checklist_entity_type
             \/ Contains(Lower(entity_type), Lower(checklist_entity_type))

_checklist_applies(checklist, entity_type) ==
    LET checklist_entity_type == Get(checklist, "entity_type", "")
    IN  IF checklist_entity_type = "" THEN TRUE
        ELSE \/ entity_type = checklist_entity_type
             \/ Contains(Lower(entity_type), Lower(checklist_entity_type))
             \/ Contains(Lower(checklist_entity_type), Lower(entity_type))

\* the first checklist of the dict, in its order, among the entries `matching`,
\* that applies to the entity type: one `for` loop of get_applicable_checklist
FirstApplicable(dict, matching, entity_type) ==
    LET accepted == {i \in matching : _checklist_applies(dict[i].value, entity_type)}
    IN  IF accepted = {} THEN None ELSE Some(dict[Min(accepted)].value)

\* the exact-match step of get_applicable_checklist
ExactMatch(dict, process, entity_type) ==
    FirstApplicable(dict, {i \in 1..Len(dict) : dict[i].key = process}, entity_type)

\* the partial-match loop of get_applicable_checklist
PartialMatch(dict, process, entity_type) ==
    FirstApplicable(dict,
                    {i \in 1..Len(dict) :
                        \/ Contains(Lower(process), Lower(dict[i].key))
                        \/ Contains(Lower(dict[i].key), Lower(process))},
                    entity_type)

\* the process-field loop of get_applicable_checklist
ProcessFieldMatch(dict, process, entity_type) ==
    FirstApplicable(dict,
                    {i \in 1..Len(dict) :
                        LET checklist_process == Get(dict[i].value, "process", "")
                        IN  /\ checklist_process # ""
                            /\ Lower(process) = Lower(checklist_process)},
                    entity_type)

\* get_applicable_checklist returning the exact-key checklist whether or not it
\* applies to the entity type
ApplicableChecklistUnfiltered(dict, process, entity_type) ==
    IF \E i \in 1..Len(dict) : dict[i].key = process
    THEN Some(dict[CHOOSE i \in 1..Len(dict) : dict[i].key = process].value)
    ELSE IF PartialMatch(dict, process, entity_type) # None
         THEN PartialMatch(dict, process, entity_type)
         ELSE ProcessFieldMatch(dict, process, entity_type)

get_applicable_checklist(dict, process, entity_type) ==
    IF ExactMatch(dict, process, entity_type) # None
    THEN ExactMatch(dict, process, entity_type)
    ELSE IF PartialMatch(dict, process, entity_type) # None
         THEN PartialMatch(dict, process, entity_type)
         ELSE ProcessFieldMatch(dict, process, entity_type)
\* the condition check that lets only "always" apply
RequirementAppliesIfAlways(applies_if, documents) ==
    IF applies_if = "always" THEN TRUE ELSE FALSE

_requirement_applies(applies_if, documents) ==
    IF applies_if = "always" THEN TRUE ELSE TRUE
\* the patterns of the keyword categories, without the requirement name itself
RequirementPatternsWithoutName(req_name) ==
    LET name == Lower(req_name)
    IN  (IF Contains("articles", name)
         THEN <<"articles of association", "memorandum of association", "constitution">>
         ELSE <<>>)
        \o (IF Contains("register", name)
            THEN <<"register of members", "register of directors", "share register",
                   "member register">>
            ELSE <<>>)
        \o (IF Contains("declaration", name)
            THEN <<"ubo declaration", "ultimate beneficial owner", "beneficial ownership">>
            ELSE <<>>)
        \o (IF Contains("application", name)
            THEN <<"incorporation application", "application form",
                   "registration application">>
            ELSE <<>>)
        \o (IF Contains("reservation", name)
            THEN <<"name reservation", "reserved name", "company name">>
            ELSE <<>>)

_get_requirement_patterns(req_name) ==
    LET name == Lower(req_name)
    IN  (IF Contains("articles", name)
         THEN <<"articles of association", "memorandum of association", "constitution">>
         ELSE <<>>)
        \o (IF Contains("register", name)
            THEN <<"register of members", "register of directors", "share register",
                   "member register">>
            ELSE <<>>)
        \o (IF Contains("declaration", name)
            THEN <<"ubo declaration", "ultimate beneficial owner", "beneficial ownership">>
            ELSE <<>>)
        \o (IF Contains("application", name)
            THEN <<"incorporation application", "application form",
                   "registration application">>
            ELSE <<>>)
        \o (IF Contains("reservation", name)
            THEN <<"name reservation", "reserved name", "company name">>
            ELSE <<>>)
        \o <<ReEscape(req_name)>>

\* a float: the double nearest to tenths / 10, or the double `below` representable
\* steps under it
Double(tenths, below) == [tenths |-> tenths, below |-> below]

\* a < b for two floats
FloatLess(a, b) ==
    a.tenths < b.tenths \/ (a.tenths = b.tenths /\ a.below > b.below)

\* confidence += weight in IEEE 754 double arithmetic, for the sums the channel
\* weights go through: 0.6 + 0.3 is 0.8999999999999999, one step below the double
\* of 0.9, and adding 0.1 to it gives 0.9999999999999999, one step below 1.0
FloatAdd(confidence, weight) ==
    CASE weight = 0 -> confidence
      [] weight # 0 /\ confidence = Double(0, 0) -> Double(weight, 0)
      [] weight = 1 /\ confidence = Double(6, 0) -> Double(7, 0)
      [] weight = 1 /\ confidence = Double(3, 0) -> Double(4, 0)
      [] weight = 3 /\ confidence = Double(6, 0) -> Double(9, 1)
      [] weight = 6 /\ confidence = Double(3, 0) -> Double(9, 1)
      [] weight = 1 /\ confidence = Double(9, 1) -> Double(10, 1)

\* min(confidence, 1.0)
FloatMinOne(confidence) ==
    IF FloatLess(Double(10, 0), confidence) THEN Double(10, 0) ELSE confidence

\* the channel weights exchanged between file name and content
ConfidenceSwapped(names_fired, content_fired, patterns_fired) ==
    FloatMinOne(FloatAdd(FloatAdd(FloatAdd(Double(0, 0), IF names_fired THEN 3 ELSE 0),
                                  IF content_fired THEN 6 ELSE 0),
                         IF patterns_fired THEN 1 ELSE 0))

\* the confidence of _check_requirement_presence: 0.6, 0.3 and 0.1 added to 0.0 for
\* the channels that fired, in that order, then min(confidence, 1.0)
Confidence(names_fired, content_fired, patterns_fired) ==
    FloatMinOne(FloatAdd(FloatAdd(FloatAdd(Double(0, 0), IF names_fired THEN 6 ELSE 0),
                                  IF content_fired THEN 3 ELSE 0),
                         IF patterns_fired THEN 1 ELSE 0))

\* combined_content is lower case, as check_requirements builds it
_check_requirement_presence(req_name, doc_names, doc_contents, combined_content) ==
    LET req_lower == Lower(req_name)
        words == Split(req_lower)
        in_names == {i \in 1..Len(doc_names) :
                        \/ Contains(req_lower, doc_names[i])
                        \/ \E w \in 1..Len(words) : Contains(words[w], doc_names[i])}
        found_in_names == [k \in 1..Cardinality(in_names) |->
                              doc_names[SortedSeq(in_names)[k]]]
        in_content == {i \in 1..Len(doc_contents) : Contains(req_lower, doc_contents[i])}
        found_in_content == [k \in 1..Cardinality(in_content) |->
                                "Document " \o Str(SortedSeq(in_content)[k])]
        content_patterns == _get_requirement_patterns(req_name)
        matching == {k \in 1..Len(content_patterns) :
                        ReSearchFolded(content_patterns[k], combined_content)}
        pattern_matches == [k \in 1..Cardinality(matching) |->
                               content_patterns[SortedSeq(matching)[k]]]
        confidence == Confidence(found_in_names # <<>>, found_in_content # <<>>,
                                 pattern_matches # <<>>)
        found_in == found_in_names \o found_in_content
                    \o (IF pattern_matches # <<>>
                        THEN <<"Pattern matches: " \o Join(pattern_matches, ", ")>>
                        ELSE <<>>)
    IN  IF FloatLess(Double(0, 0), confidence)
        THEN Some([found_in |-> found_in, confidence |-> confidence])
        ELSE None

RECURSIVE LowerAll(_, _)
\* [s.lower() for s in strs]
LowerAll(strs, i) ==
    IF i > Len(strs) THEN <<>> ELSE <<Lower(strs[i])>> \o LowerAll(strs, i + 1)

\* a compliance score, exact
Fraction(num, den) == [num |-> num, den |-> den]

\* the found / missing entry check_requirements appends for one requirement
RequirementEntry(requirement, doc_names, doc_contents, combined_content) ==
    LET req_name == Get(requirement, "name", "")
        req_mandatory == Get(requirement, "mandatory", TRUE)
        found == _check_requirement_presence(req_name, doc_names, doc_contents,
                                             combined_content)
    IN  IF found # None
        THEN [found |-> TRUE,
              entry |-> [name |-> req_name, mandatory |-> req_mandatory,
                         found_in |-> found[1].found_in,
                         confidence |-> found[1].confidence]]
        ELSE [found |-> FALSE,
              entry |-> [name |-> req_name, mandatory |-> req_mandatory,
                         sources |-> Get(requirement, "sources", <<>>)]]

\* len([r for r in found_requirements if r["mandatory"]]) without the filter
MandatoryFoundUnfiltered(found_requirements) == Len(found_requirements)

\* len([r for r in found_requirements if r["mandatory"]])
MandatoryFound(found_requirements) ==
    Cardinality({k \in 1..Len(found_requirements) : found_requirements[k].mandatory})

\* the result check_requirements returns, given the entry of each requirement
RequirementResults(requirements, documents, entries) ==
    LET applying == {i \in 1..Len(requirements) :
                        _requirement_applies(Get(requirements[i], "applies_if", "always"),
                                             documents)}
        found == SortedSeq({i \in applying : entries[i].found})
        missing == SortedSeq({i \in applying : ~entries[i].found})
        found_requirements == [k \in 1..Len(found) |-> entries[found[k]].entry]
        missing_requirements == [k \in 1..Len(missing) |-> entries[missing[k]].entry]
        mandatory_requirements ==
            {i \in 1..Len(requirements) : Get(requirements[i], "mandatory", TRUE)}
        mandatory_found == MandatoryFound(found_requirements)
    IN  [total_requirements |-> Len(requirements),
         found_requirements |-> found_requirements,
         missing_requirements |-> missing_requirements,
         compliance_score |->
            IF mandatory_requirements # {}
            THEN Fraction(mandatory_found, Cardinality(mandatory_requirements))
            ELSE Fraction(0, 1)]

\* the loop of check_requirements over the lower-cased names and texts
RequirementLoop(requirements, documents, doc_names, doc_contents) ==
    CHOOSE result \in
        {RequirementResults(requirements, documents, entries) :
            entries \in
                {[i \in 1..Len(requirements) |->
                     RequirementEntry(requirements[i], doc_names, doc_contents,
                                      combined_content)] :
                    combined_content \in {Join(doc_contents, " ")}}} : TRUE

check_requirements(documents, checklist) ==
    CHOOSE result \in
        {RequirementLoop(Get(checklist, "requirements", <<>>), documents, doc_names,
                         doc_contents) :
            doc_names \in {LowerAll(Filenames(documents), 1)},
            doc_contents \in {LowerAll(FullTexts(documents), 1)}} : TRUE

\* s >= a / b for a fraction s
FractionAtLeast(s, a, b) == s.num * b >= a * s.den

\* _get_compliance_status with strict comparisons
ComplianceStatusStrict(requirement_results) ==
    LET compliance_score == Get(requirement_results, "compliance_score", Fraction(0, 1))
    IN  IF compliance_score.num * 10 > 9 * compliance_score.den THEN "Compliant"
        ELSE IF compliance_score.num * 10 > 7 * compliance_score.den
             THEN "Mostly Compliant"
        ELSE IF compliance_score.num * 10 > 5 * compliance_score.den
             THEN "Partially Compliant"
        ELSE "Non-Compliant"

_get_compliance_status(requirement_results) ==
    LET compliance_score == Get(requirement_results, "compliance_score", Fraction(0, 1))
    IN  IF FractionAtLeast(compliance_score, 9, 10) THEN "Compliant"
        ELSE IF FractionAtLeast(compliance_score, 7, 10) THEN "Mostly Compliant"
        ELSE IF FractionAtLeast(compliance_score, 5, 10) THEN "Partially Compliant"
        ELSE "Non-Compliant"

\* the time_estimates table of _estimate_completion_time, in its order
time_estimates ==
    <<[key |-> "articles of association", value |-> "1-2 days"],
      [key |-> "register of members", value |-> "1 day"],
      [key |-> "register of directors", value |-> "1 day"],
      [key |-> "ubo declaration", value |-> "2-3 days"],
      [key |-> "incorporation application", value |-> "1 day"],
      [key |-> "name reservation", value |-> "1 day"]>>

\* the notes table of _get_requirement_notes, in its order
notes ==
    <<[key |-> "articles of association",
       value |-> "Must comply with ADGM Companies Regulations 2020"],
      [key |-> "register of members",
       value |-> "Must be maintained and updated within 14 days of changes"],
      [key |-> "register of directors",
       value |-> "Must include residential address and date of birth"],
      [key |-> "ubo declaration",
       value |-> "Must identify ultimate beneficial owners with 25%+ ownership"],
      [key |-> "incorporation application",
       value |-> "Must be signed by all proposed directors"],
      [key |-> "name reservation",
       value |-> "Name must be available and comply with naming conventions"]>>

\* the value of the first entry of the table whose key occurs in the lower-cased
\* requirement name, or the default
FirstKeyIn(table, req_name, default) ==
    LET req_lower == Lower(req_name)
        hits == {k \in 1..Len(table) : Contains(table[k].key, req_lower)}
    IN  IF hits = {} THEN default ELSE table[Min(hits)].value

_estimate_completion_time(req_name) == FirstKeyIn(time_estimates, req_name, "1-3 days")

_get_requirement_notes(req_name) ==
    FirstKeyIn(notes, req_name, "Please refer to ADGM guidance for specific requirements.")

_generate_suggestions(requirement_results, checklist) ==
    LET missing == Get(requirement_results, "missing_requirements", <<>>)
    IN  [k \in 1..Len(missing) |->
            [requirement |-> missing[k].name,
             action |-> "Obtain or prepare " \o missing[k].name,
             priority |-> IF missing[k].mandatory THEN "High" ELSE "Medium",
             sources |-> Get(missing[k], "sources", <<>>),
             estimated_time |-> _estimate_completion_time(missing[k].name),
             notes |-> _get_requirement_notes(missing[k].name)]]

\* the query _get_regulatory_context sends to the retriever
RegulatoryQuery(process, entity_type) ==
    process \o " " \o entity_type \o " ADGM requirements"

\* relevant_docs is what retrieve_and_rerank returned for the query
_get_regulatory_context(process, entity_type, relevant_docs) ==
    LET top == IF Len(relevant_docs) > 3 THEN 3 ELSE Len(relevant_docs)
    IN  [relevant_sources |->
            [k \in 1..top |->
                LET metadata == Get(relevant_docs[k], "metadata", EmptyDict)
                IN  [title |-> Get(metadata, "title", "Unknown"),
                     url |-> Get(metadata, "source_url", ""),
                     relevance_score |-> Get(relevant_docs[k], "similarity_score", 0)]],
         key_regulations |-> <<>>,
         compliance_deadlines |-> <<>>]

\* `not checklist` for the Optional[Dict] get_applicable_checklist returns: None
\* and the empty dict are both false
NotChecklist(checklist) == checklist = None \/ DOMAIN checklist[1] = {}

\* list(self.checklists.keys())
ChecklistKeys(dict) == [i \in 1..Len(dict) |-> dict[i].key]

\* the payload generate_gap_report returns once a checklist is found
GapReport(process, entity_type, documents, checklist, requirement_results, relevant_docs) ==
    [process |-> process,
     entity_type |-> entity_type,
     checklist_used |-> Get(checklist, "process", ""),
     documents_uploaded |-> Len(documents),
     requirement_analysis |-> requirement_results,
     suggestions |-> _generate_suggestions(requirement_results, checklist),
     regulatory_context |-> _get_regulatory_context(process, entity_type, relevant_docs),
     compliance_status |-> _get_compliance_status(requirement_results)]

\* each local variable of the method is assigned once: the checklist, then the
\* requirement results
generate_gap_report(dict, analysis_result, relevant_docs) ==
    LET documents == Get(analysis_result, "documents", <<>>)
        process == Get(analysis_result, "process", "")
        entity_type == Get(analysis_result, "entity_type", "")
    IN  CHOOSE payload \in
            {IF NotChecklist(checklist)
             THEN [error |-> "No applicable checklist found for process: " \o process
                             \o ", entity_type: " \o entity_type,
                   available_checklists |-> ChecklistKeys(dict)]
             ELSE CHOOSE report \in
                      {GapReport(process, entity_type, documents, checklist[1],
                                 requirement_results, relevant_docs) :
                          requirement_results \in
                              {check_requirements(documents, checklist[1])}} : TRUE :
                 checklist \in {get_applicable_checklist(dict, process, entity_type)}} :
            TRUE

\* the calls generate_gap_report makes, in order
GapReportCalls(dict, analysis_result) ==
    LET checklist == get_applicable_checklist(dict, Get(analysis_result, "process", ""),
                                              Get(analysis_result, "entity_type", ""))
    IN  <<"get_applicable_checklist">>
        \o (IF NotChecklist(checklist) THEN <<>>
            ELSE <<"check_requirements", "_generate_suggestions",
                   "_get_regulatory_context", "retrieve_and_rerank",
                   "_get_compliance_status">>)

---------------------------------------------------------------------------
(* Red-flag rule evaluator: DocumentAnalyzer *)

Digits == "0123456789"

\* the character at position i of t, "" outside t
At(t, i) == IF i >= 1 /\ i <= Len(t) THEN CharAt(t, i) ELSE ""

IsLetter(c) == c # "" /\ (Contains(c, Uppers) \/ Contains(c, Lowers))
IsDigit(c) == c # "" /\ Contains(c, Digits)
\* \w
IsWordChar(c) == IsLetter(c) \/ IsDigit(c) \/ c = "_"

\* \b between positions i - 1 and i of t
WordBoundary(t, i) == IsWordChar(At(t, i - 1)) # IsWordChar(At(t, i))

AllLetters(t, i, j) == \A x \in i..j : IsLetter(At(t, x))
AllDigits(t, i, j) == \A x \in i..j : IsDigit(At(t, x))

\* [A-Z][a-z]+ [A-Z][a-z]+ between word boundaries, under re.IGNORECASE, with its
\* first letter at i: two runs of two or more letters around the blank at j
TwoNamesAt(t, i) ==
    \E j \in (i + 2)..Len(t) :
        /\ At(t, j) = " "
        /\ AllLetters(t, i, j - 1)
        /\ WordBoundary(t, i)
        /\ \E k \in (j + 2)..Len(t) :
              /\ AllLetters(t, j + 1, k)
              /\ WordBoundary(t, k + 1)

\* (signed|signature|signed by|executed by).*\b[A-Z][a-z]+ [A-Z][a-z]+\b
HasSignatoryName(doc_text) ==
    LET t == Lower(doc_text)
    IN  \E e \in 1..Len(t) :
            /\ \E kw \in {"signed", "signature", "signed by", "executed by"} :
                  e > Len(kw) /\ OccursAt(kw, t, e - Len(kw))
            /\ \E i \in e..Len(t) :
                  /\ \A x \in e..(i - 1) : At(t, x) # "\n"
                  /\ TwoNamesAt(t, i)

\* \d{a}[/-]\d{b}[/-]\d{c} between word boundaries, starting at i
DateAt(t, i, a, b, c) ==
    /\ AllDigits(t, i, i + a - 1)
    /\ At(t, i + a) \in {"/", "-"}
    /\ AllDigits(t, i + a + 1, i + a + b)
    /\ At(t, i + a + b + 1) \in {"/", "-"}
    /\ AllDigits(t, i + a + b + 2, i + a + b + c + 1)
    /\ WordBoundary(t, i)
    /\ WordBoundary(t, i + a + b + c + 2)

\* \b\d{1,2}[/-]\d{1,2}[/-]\d{4}\b|\b\d{4}[/-]\d{1,2}[/-]\d{1,2}\b
HasDate(doc_text) ==
    \E i \in 1..Len(doc_text) :
        \/ \E a \in 1..2, b \in 1..2 : DateAt(doc_text, i, a, b, 4)
        \/ \E b \in 1..2, c \in 1..2 : DateAt(doc_text, i, 4, b, c)

\* \[\[.*?\]\]|_{3,}
HasPlaceholder(doc_text) ==
    \/ \E i \in 1..Len(doc_text) :
          /\ OccursAt("[[", doc_text, i)
          /\ \E j \in (i + 2)..Len(doc_text) :
                /\ OccursAt("]]", doc_text, j)
                /\ \A x \in (i + 2)..(j - 1) : At(doc_text, x) # "\n"
    \/ Contains("___", doc_text)

\* the issue dict with the rule's name in the document field
IssueNamingRule(rule_name, doc_name, issue, severity, rule_config) ==
    [rule |-> rule_name, document |-> rule_name, issue |-> issue,
     severity |-> severity, citations |-> Get(rule_config, "citations", <<>>)]

Issue(rule_name, doc_name, issue, severity, rule_config) ==
    [rule |-> rule_name, document |-> doc_name, issue |-> issue,
     severity |-> severity, citations |-> Get(rule_config, "citations", <<>>)]

_check_pattern_presence_rule(rule_name, rule_config, doc_name, doc_text) ==
    LET patterns_any == Get(rule_config, "patterns_any", <<>>)
        require_phrase == Get(rule_config, "require_phrase", "")
        forbidden_found == \E k \in 1..Len(patterns_any) :
                               ReSearchI(patterns_any[k], doc_text)
    IN  IF forbidden_found /\ require_phrase # "" /\ ~ReSearchI(require_phrase, doc_text)
        THEN Some(Issue(rule_name, doc_name,
                        Get(rule_config, "message", "Pattern presence issue detected"),
                        Get(rule_config, "severity", "Medium"), rule_config))
        ELSE None
\* the structural check running the four probes whatever the rule requests
StructuralAllProbes(rule_name, rule_config, doc_name, doc_text) ==
    LET missing_checks ==
            (IF ~HasSignatoryName(doc_text) THEN <<"signatory name">> ELSE <<>>)
            \o (IF ~\E w \in {"director", "officer", "authorized", "capacity"} :
                      ReSearchI(w, doc_text)
                THEN <<"capacity">> ELSE <<>>)
            \o (IF ~\E w \in {"signature", "signed", "electronic signature", "e-sign"} :
                      ReSearchI(w, doc_text)
                THEN <<"signature">> ELSE <<>>)
            \o (IF ~HasDate(doc_text) THEN <<"date">> ELSE <<>>)
    IN  IF missing_checks # <<>>
        THEN Some(Issue(rule_name, doc_name,
                        "Missing structural elements: " \o Join(missing_checks, ", "),
                        Get(rule_config, "severity", "Medium"), rule_config))
        ELSE None

_check_structural_rule(rule_name, rule_config, doc_name, doc_text) ==
    LET checks == Get(rule_config, "checks", <<>>)
        Requested(check) == \E k \in 1..Len(checks) : checks[k] = check
        missing_checks ==
            (IF Requested("has_signatory_name") /\ ~HasSignatoryName(doc_text)
             THEN <<"signatory name">> ELSE <<>>)
            \o (IF /\ Requested("has_capacity")
                   /\ ~\E w \in {"director", "officer", "authorized", "capacity"} :
                          ReSearchI(w, doc_text)
                THEN <<"capacity">> ELSE <<>>)
            \o (IF /\ Requested("has_signature_or_e-sign")
                   /\ ~\E w \in {"signature", "signed", "electronic signature", "e-sign"} :
                          ReSearchI(w, doc_text)
                THEN <<"signature">> ELSE <<>>)
            \o (IF Requested("has_date") /\ ~HasDate(doc_text)
                THEN <<"date">> ELSE <<>>)
    IN  IF missing_checks # <<>>
        THEN Some(Issue(rule_name, doc_name,
                        "Missing structural elements: " \o Join(missing_checks, ", "),
                        Get(rule_config, "severity", "Medium"), rule_config))
        ELSE None

_check_semantic_rule(rule_name, rule_config, doc_name, doc_text) ==
    LET forbidden_phrases == Get(rule_config, "forbidden_phrases", <<>>)
        matching == {k \in 1..Len(forbidden_phrases) :
                        ReSearchI(forbidden_phrases[k], doc_text)}
    IN  IF matching # {}
        THEN Some(Issue(rule_name, doc_name,
                        Get(rule_config, "message",
                            "Forbidden phrase found: " \o forbidden_phrases[Min(matching)]),
                        Get(rule_config, "severity", "High"), rule_config))
        ELSE None
\* the heuristic check with the default severity of the other checks
HeuristicDefaultMedium(rule_name, rule_config, doc_name, doc_text) ==
    LET indicators == Get(rule_config, "indicators_any", <<>>)
        IsTemplate(k) == Contains("Template fields left blank", indicators[k])
        IsLorem(k) == ~IsTemplate(k) /\ Contains("Lorem ipsum", indicators[k])
        firing == {k \in 1..Len(indicators) :
                      \/ IsTemplate(k) /\ HasPlaceholder(doc_text)
                      \/ IsLorem(k) /\ Contains("lorem ipsum", Lower(doc_text))}
    IN  IF firing # {}
        THEN Some(Issue(rule_name, doc_name,
                        Get(rule_config, "message",
                            IF IsTemplate(Min(firing)) THEN "Template placeholders found"
                            ELSE "Lorem ipsum text found"),
                        Get(rule_config, "severity", "Medium"), rule_config))
        ELSE None

_check_heuristic_rule(rule_name, rule_config, doc_name, doc_text) ==
    LET indicators == Get(rule_config, "indicators_any", <<>>)
        IsTemplate(k) == Contains("Template fields left blank", indicators[k])
        IsLorem(k) == ~IsTemplate(k) /\ Contains("Lorem ipsum", indicators[k])
        firing == {k \in 1..Len(indicators) :
                      \/ IsTemplate(k) /\ HasPlaceholder(doc_text)
                      \/ IsLorem(k) /\ Contains("lorem ipsum", Lower(doc_text))}
    IN  IF firing # {}
        THEN Some(Issue(rule_name, doc_name,
                        Get(rule_config, "message",
                            IF IsTemplate(Min(firing)) THEN "Template placeholders found"
                            ELSE "Lorem ipsum text found"),
                        Get(rule_config, "severity", "Low"), rule_config))
        ELSE None

\* condition.split("==")[1] for a condition that contains "=="
SecondPiece(condition) ==
    LET first == Min({i \in 1..Len(condition) : OccursAt("==", condition, i)})
        later == {i \in (first + 2)..Len(condition) : OccursAt("==", condition, i)}
        stop == IF later = {} THEN Len(condition) + 1 ELSE Min(later)
    IN  SubSeq(condition, first + 2, stop - 1)

\* condition.split("==")[1].strip().strip("'\"")
RequiredEntity(condition) == Strip(Strip(SecondPiece(condition), " \t\n"), "'\"")

\* the entity gate with the conditions AND-ed instead of OR-ed
EntityConditionMetByAll(trigger_if, entity_type) ==
    \A k \in 1..Len(trigger_if) :
        Contains("entity_type ==", trigger_if[k]) =>
            entity_type = RequiredEntity(trigger_if[k])

\* the loop over trigger_if of _apply_redflag_rule: entity_condition_met
EntityConditionMet(trigger_if, entity_type) ==
    \E k \in 1..Len(trigger_if) :
        /\ Contains("entity_type ==", trigger_if[k])
        /\ entity_type = RequiredEntity(trigger_if[k])

\* the dispatch on rule_kind for one document
CheckRule(rule_kind, rule_name, rule_config, doc_name, doc_text) ==
    CASE rule_kind = "pattern_presence" ->
            _check_pattern_presence_rule(rule_name, rule_config, doc_name, doc_text)
      [] rule_kind = "structural_check" ->
            _check_structural_rule(rule_name, rule_config, doc_name, doc_text)
      [] rule_kind = "semantic_check" ->
            _check_semantic_rule(rule_name, rule_config, doc_name, doc_text)
      [] rule_kind = "heuristic" ->
            _check_heuristic_rule(rule_name, rule_config, doc_name, doc_text)
      [] OTHER -> None

RECURSIVE Concat(_, _)
\* the concatenation of the lists seqs[i], seqs[i+1], ...
Concat(seqs, i) == IF i > Len(seqs) THEN <<>> ELSE seqs[i] \o Concat(seqs, i + 1)

\* the loop over the documents of _apply_redflag_rule
RuleOverDocuments(rule_name, rule_config, documents) ==
    LET rule_kind == Get(rule_config, "kind", "")
        applies_to_docs == Get(rule_config, "applies_to_docs", <<"All">>)
        Listed(name) == \E k \in 1..Len(applies_to_docs) : applies_to_docs[k] = name
    IN  Concat([d \in 1..Len(documents) |->
                   LET doc_name == Get(documents[d], "filename", "Unknown")
                   IN  IF ~Listed("All") /\ ~Listed(doc_name) THEN <<>>
                       ELSE CheckRule(rule_kind, rule_name, rule_config, doc_name,
                                      Get(documents[d], "full_text", ""))], 1)

_apply_redflag_rule(rule_name, rule_config, documents, process, entity_type) ==
    LET applies_if == Get(rule_config, "applies_if", "always")
        trigger_if == Get(rule_config, "trigger_if", <<>>)
    IN  IF /\ applies_if # "always"
           /\ applies_if = "process == 'Company Incorporation'"
           /\ process # "Company Incorporation"
        THEN <<>>
        ELSE IF trigger_if # <<>> /\ ~EntityConditionMet(trigger_if, entity_type)
        THEN <<>>
        ELSE RuleOverDocuments(rule_name, rule_config, documents)

\* applicable_rules with the substring test reversed: the process within the scope
ApplicableRulesReversed(rule_sets, process) ==
    Concat([i \in 1..Len(rule_sets) |->
               IF \/ rule_sets[i].key = "General Corporate Docs"
                  \/ Contains(Lower(process), Lower(rule_sets[i].key))
               THEN Get(rule_sets[i].value, "rules", <<>>)
               ELSE <<>>], 1)

\* applicable_rules: the rules of the rule sets in scope, in order
ApplicableRules(rule_sets, process) ==
    Concat([i \in 1..Len(rule_sets) |->
               IF \/ rule_sets[i].key = "General Corporate Docs"
                  \/ Contains(Lower(rule_sets[i].key), Lower(process))
               THEN Get(rule_sets[i].value, "rules", <<>>)
               ELSE <<>>], 1)

check_redflags(rule_sets, documents, process, entity_type) ==
    LET applicable_rules == ApplicableRules(rule_sets, process)
    IN  Concat([r \in 1..Len(applicable_rules) |->
                   _apply_redflag_rule(applicable_rules[r].key, applicable_rules[r].value,
                                       documents, process, entity_type)], 1)

\* the largest element of a non-empty set of integers
Max(S) == CHOOSE x \in S : \A y \in S : y <= x

\* the position of the last occurrence of the character c in s, 0 if none
LastIndexOf(c, s) ==
    LET at == {i \in 1..Len(s) : CharAt(s, i) = c}
    IN  IF at = {} THEN 0 ELSE Max(at)

\* Path(file_path).name
PathName(file_path) ==
    SubSeq(file_path, LastIndexOf("/", file_path) + 1, Len(file_path))

\* Path(file_path).suffix.lower()
get_file_extension(file_path) ==
    LET name == PathName(file_path)
        dot == LastIndexOf(".", name)
    IN  IF dot > 1 /\ dot < Len(name) THEN Lower(SubSeq(name, dot, Len(name))) ELSE ""

is_docx_file(file_path) == get_file_extension(file_path) = ".docx"

\* a file on disk: its path and, when python-docx can read it, its text
File(file_path, content) == [file_path |-> file_path, content |-> content]

\* an exception leaving a call
Raised(type, message) == [raised |-> type, message |-> message]

\* parse_docx: the document data, or None when it raises
parse_docx(file) ==
    IF ~is_docx_file(file.file_path) \/ file.content = None THEN None
    ELSE Some(Doc(PathName(file.file_path), file.content[1]))

\* the result analyze_documents returns for the parsed documents
Analysis(rule_sets, documents, process, entity_type) ==
    [documents |-> documents,
     process |-> process,
     entity_type |-> entity_type,
     redflags |-> check_redflags(rule_sets, documents, process, entity_type),
     document_count |-> Len(documents)]
\* analyze_documents giving up on the first file that does not parse
AnalyzeAllOrNothing(rule_sets, file_paths) ==
    IF file_paths = <<>> \/ \E i \in 1..Len(file_paths) : parse_docx(file_paths[i]) = None
    THEN Raised("ValueError", "No valid documents to analyze")
    ELSE CHOOSE analysis \in
             {Analysis(rule_sets, documents, detect_process(documents),
                       detect_entity_type(documents)) :
                 documents \in {[i \in 1..Len(file_paths) |->
                                    parse_docx(file_paths[i])[1]]}} : TRUE

\* each local variable of the method is assigned once: the documents, then the
\* process and the entity type
analyze_documents(rule_sets, file_paths) ==
    LET parsed == [i \in 1..Len(file_paths) |->
                      IF parse_docx(file_paths[i]) = None THEN <<>>
                      ELSE <<parse_docx(file_paths[i])[1]>>]
    IN  CHOOSE result \in
            {IF documents = <<>>
             THEN Raised("ValueError", "No valid documents to analyze")
             ELSE CHOOSE analysis \in
                      {Analysis(rule_sets, documents, process, entity_type) :
                          process \in {detect_process(documents)},
                          entity_type \in {detect_entity_type(documents)}} : TRUE :
                 documents \in {Concat(parsed, 1)}} :
            TRUE

---------------------------------------------------------------------------
(* Retrieval: DocumentRetriever (core/retrieval.py) *)

\* the outcome of a call: it returns a value or an exception leaves it
Returned(value) == [returned |-> value]

IsRaised(outcome) == "raised" \in DOMAIN outcome

\* try: body / except Exception: handler
TryExcept(body, handler) == IF IsRaised(body) THEN handler ELSE body

\* documents[:k], for k >= 0
Take(documents, k) ==
    IF k >= Len(documents) THEN documents ELSE SubSeq(documents, 1, k)

\* the settings read by __init__, with its defaults
RagSettings(config) ==
    [top_k |-> Get(Get(config, "rag", EmptyDict), "top_k", 8),
     rerank_k |-> Get(Get(config, "rag", EmptyDict), "rerank_k", 6),
     min_score |-> Get(Get(config, "rag", EmptyDict), "min_score", 35)]

\* embed_query on the response of the embedding service: [] when the call raised
embed_query(response) ==
    TryExcept(response, Returned(<<>>)).returned

\* collection.query: the n_results nearest entries of the collection, as parallel
\* rows of documents, metadatas and distances
CollectionQuery(collection, n_results) ==
    [documents |-> [i \in 1..Len(Take(collection, n_results)) |-> collection[i].document],
     metadatas |-> [i \in 1..Len(Take(collection, n_results)) |-> collection[i].metadata],
     distances |-> [i \in 1..Len(Take(collection, n_results)) |-> collection[i].distance]]

\* the documents retrieve_documents builds from the results of the query
FormatResults(results) ==
    [i \in 1..Len(results.documents) |->
        [text |-> results.documents[i],
         metadata |-> results.metadatas[i],
         similarity_score |-> 100 - results.distances[i],
         distance |-> results.distances[i]]]

\* retrieve_documents without its except clause
RetrieveDocumentsUncaught(top_k, service) ==
    IF embed_query(service.query_embedding) = <<>> THEN Returned(<<>>)
    ELSE IF service.store_raises
         THEN Raised("Exception", "collection.query failed")
         ELSE Returned(FormatResults(CollectionQuery(service.collection, top_k)))

\* retrieve_documents: [] when the query embedding or the query of the store fails
retrieve_documents(top_k, service) ==
    TryExcept(
        IF embed_query(service.query_embedding) = <<>> THEN Returned(<<>>)
        ELSE IF service.store_raises
             THEN Raised("Exception", "collection.query failed")
             ELSE Returned(FormatResults(CollectionQuery(service.collection, top_k))),
        Returned(<<>>))

\* the documents with the rerank_score the loop of rerank_documents assigns
WithRerankScore(documents, similarities) ==
    [i \in 1..Len(documents) |->
        [key \in DOMAIN documents[i] \cup {"rerank_score"} |->
            IF key = "rerank_score" THEN similarities[documents[i].text]
            ELSE documents[i][key]]]

RECURSIVE InsertByRerankScore(_, _)
\* doc put after the documents that score at least as much
InsertByRerankScore(sorted, doc) ==
    IF sorted = <<>> THEN <<doc>>
    ELSE IF Head(sorted).rerank_score >= doc.rerank_score
         THEN <<Head(sorted)>> \o InsertByRerankScore(Tail(sorted), doc)
         ELSE <<doc>> \o sorted

RECURSIVE SortedByRerankScore(_, _)
\* sorted(documents[:i], key=rerank_score, reverse=True); the sort is stable
SortedByRerankScore(documents, i) ==
    IF i = 0 THEN <<>>
    ELSE InsertByRerankScore(SortedByRerankScore(documents, i - 1), documents[i])

\* rerank_documents: the documents by decreasing rerank score, or the documents
\* as they came when the query embedding or the embedding of the texts fails
rerank_documents(rerank_k, documents, service) ==
    IF documents = <<>> THEN Returned(<<>>)
    ELSE TryExcept(
            IF embed_query(service.rerank_embedding) = <<>>
            THEN Returned(Take(documents, rerank_k))
            ELSE IF IsRaised(service.doc_similarities) THEN service.doc_similarities
            ELSE Returned(Take(SortedByRerankScore(
                     WithRerankScore(documents, service.doc_similarities.returned),
                     Len(documents)), rerank_k)),
            Returned(Take(documents, rerank_k)))

\* filter_by_score with documents under the threshold put last
FilterDemoting(documents, min_score) ==
    SelectSeq(documents, LAMBDA doc : Get(doc, "similarity_score", 0) >= min_score)
    \o SelectSeq(documents, LAMBDA doc : Get(doc, "similarity_score", 0) < min_score)

filter_by_score(documents, min_score) ==
    SelectSeq(documents, LAMBDA doc : Get(doc, "similarity_score", 0) >= min_score)

\* retrieve_and_rerank: retrieve, rerank, filter; an exception of a step leaves it
retrieve_and_rerank(settings, service) ==
    LET documents == retrieve_documents(settings.top_k, service)
        reranked_docs == rerank_documents(settings.rerank_k, documents.returned, service)
    IN  IF IsRaised(documents) THEN documents
        ELSE IF documents.returned = <<>> THEN Returned(<<>>)
        ELSE IF IsRaised(reranked_docs) THEN reranked_docs
        ELSE Returned(filter_by_score(reranked_docs.returned, settings.min_score))

\* a call made during retrieve_and_rerank and its outcome
Call(name, outcome) == [call |-> name, outcome |-> outcome]

\* the calls of rerank_documents on the retrieved documents, then the filter
RerankCalls(settings, documents, service) ==
    LET reranked_docs == rerank_documents(settings.rerank_k, documents, service)
    IN  <<Call("embed_query", Returned(embed_query(service.rerank_embedding)))>>
        \o (IF embed_query(service.rerank_embedding) = <<>> THEN <<>>
            ELSE <<Call("embeddings.create", service.doc_similarities)>>)
        \o <<Call("rerank_documents", reranked_docs)>>
        \o (IF IsRaised(reranked_docs) THEN <<>>
            ELSE <<Call("filter_by_score",
                        Returned(filter_by_score(reranked_docs.returned,
                                                 settings.min_score)))>>)

\* the calls retrieve_and_rerank makes, in order, each with its outcome
RetrievalCalls(settings, service) ==
    LET documents == retrieve_documents(settings.top_k, service)
    IN  <<Call("embed_query", Returned(embed_query(service.query_embedding)))>>
        \o (IF embed_query(service.query_embedding) = <<>> THEN <<>>
            ELSE <<Call("collection.query",
                        IF service.store_raises
                        THEN Raised("Exception", "collection.query failed")
                        ELSE Returned(CollectionQuery(service.collection,
                                                      settings.top_k)))>>)
        \o <<Call("retrieve_documents", documents)>>
        \o (IF IsRaised(documents) \/ documents.returned = <<>> THEN <<>>
            ELSE RerankCalls(settings, documents.returned, service))

---------------------------------------------------------------------------
(* Report: ReportBuilder (core/report.py) *)

\* the name of the first missing requirement, whatever its kind
FirstMissingDocument(missing_requirements) ==
    IF missing_requirements = <<>> THEN None
    ELSE Some(Get(missing_requirements[1], "name", ""))

_get_most_critical_missing_document(missing_requirements) ==
    IF missing_requirements = <<>> THEN None
    ELSE LET mandatory_missing ==
                 SelectSeq(missing_requirements, LAMBDA req : Get(req, "mandatory", TRUE))
         IN  IF mandatory_missing # <<>>
             THEN Some(Get(mandatory_missing[1], "name", ""))
             ELSE Some(Get(missing_requirements[1], "name", ""))

\* the first document whose filename equals the name, contains it or is contained
\* in it, all lower-cased
_find_document_by_name(documents, document_name) ==
    LET matching ==
            {i \in DOMAIN documents :
                \/ Lower(Get(documents[i], "filename", "")) = Lower(document_name)
                \/ Contains(Lower(document_name), Lower(Get(documents[i], "filename", "")))
                \/ Contains(Lower(Get(documents[i], "filename", "")), Lower(document_name))}
    IN  IF matching = {} THEN None ELSE Some(documents[Min(matching)])

_generate_suggestion_for_issue(redflag) ==
    LET issue_text == Lower(Get(redflag, "issue", ""))
    IN  IF Contains("jurisdiction", issue_text)
        THEN "Update jurisdiction clause to reference ADGM laws and courts."
        ELSE IF Contains("signature", issue_text)
        THEN "Ensure all required signatures are present with proper capacity and dates."
        ELSE IF Contains("register", issue_text)
        THEN "Prepare and maintain the required register as per ADGM regulations."
        ELSE IF Contains("template", issue_text)
        THEN "Complete all template fields and remove placeholder text."
        ELSE IF Contains("share capital", issue_text)
        THEN "Remove references to share capital for companies limited by guarantee."
        ELSE "Please review and address the identified issue according to ADGM requirements."

_convert_redflags_to_issues(redflags, documents) ==
    [i \in 1..Len(redflags) |->
        LET document_name == Get(redflags[i], "document", "Unknown")
            actual_document == _find_document_by_name(documents, document_name)
        IN  [document |-> IF actual_document # None
                          THEN Get(actual_document[1], "filename", document_name)
                          ELSE document_name,
             section |-> Get(redflags[i], "section", ""),
             issue |-> Get(redflags[i], "issue", ""),
             severity |-> Get(redflags[i], "severity", "Medium"),
             suggestion |-> _generate_suggestion_for_issue(redflags[i])]]
\* the conversion keeping the suggestions of high priority only
ConvertHighPrioritySuggestions(suggestions) ==
    LET high == SortedSeq({i \in 1..Len(suggestions) : Get(suggestions[i], "priority", "") = "High"})
    IN  [k \in 1..Len(high) |->
            [name |-> Get(suggestions[high[k]], "requirement", ""),
             mandatory |-> TRUE,
             priority |-> "High",
             estimated_time |-> Get(suggestions[high[k]], "estimated_time", "1-3 days"),
             sources |-> Get(suggestions[high[k]], "sources", <<>>),
             notes |-> Get(suggestions[high[k]], "notes", "")]]

_convert_suggestions(suggestions) ==
    [i \in 1..Len(suggestions) |->
        [name |-> Get(suggestions[i], "requirement", ""),
         mandatory |-> Get(suggestions[i], "priority", "") = "High",
         priority |-> Get(suggestions[i], "priority", "Medium"),
         estimated_time |-> Get(suggestions[i], "estimated_time", "1-3 days"),
         sources |-> Get(suggestions[i], "sources", <<>>),
         notes |-> Get(suggestions[i], "notes", "")]]

_build_regulatory_context(context_data) ==
    [relevant_sources |-> Get(context_data, "relevant_sources", <<>>),
     key_regulations |-> Get(context_data, "key_regulations", <<>>),
     compliance_deadlines |-> Get(context_data, "compliance_deadlines", <<>>)]

\* the elements of a list
Elements(list) == {list[i] : i \in DOMAIN list}

\* the set _collect_citations builds, with the citations of the red flags only
RedflagCitations(redflags, checklist_result) ==
    UNION {Elements(Get(redflags[i], "citations", <<>>)) : i \in DOMAIN redflags}

\* the set _collect_citations builds: the citations of the red flags and the urls,
\* when not empty, of the relevant sources
_collect_citations(redflags, checklist_result) ==
    UNION {Elements(Get(redflags[i], "citations", <<>>)) : i \in DOMAIN redflags}
    \cup {Get(source, "url", "") :
             source \in {s \in Elements(Get(Get(checklist_result, "regulatory_context",
                                                 EmptyDict), "relevant_sources", <<>>)) :
                            Get(s, "url", "") # ""}}

\* list(citations): the elements of the set, each once, in the order the
\* interpreter iterates the set
ListsOf(S) == {list \in [1..Cardinality(S) -> S] : Elements(list) = S}

\* build_report, given the list made of the set of citations; the timestamp is
\* left out
build_report(analysis_result, checklist_result, redflags, citations) ==
    LET documents == Get(analysis_result, "documents", <<>>)
        requirements_analysis == Get(checklist_result, "requirement_analysis", EmptyDict)
    IN  [process |-> Get(analysis_result, "process", "Unknown"),
         entity_type |-> Get(analysis_result, "entity_type", "Unknown"),
         documents_uploaded |-> Len(documents),
         required_documents |-> Get(requirements_analysis, "total_requirements", 0),
         missing_document |->
            _get_most_critical_missing_document(
                Get(requirements_analysis, "missing_requirements", <<>>)),
         issues_found |-> _convert_redflags_to_issues(redflags, documents),
         requirements_analysis |-> requirements_analysis,
         compliance_score |-> Get(requirements_analysis, "compliance_score", Fraction(0, 1)),
         compliance_status |-> Get(checklist_result, "compliance_status", "Unknown"),
         suggestions |-> _convert_suggestions(Get(checklist_result, "suggestions", <<>>)),
         regulatory_context |->
            _build_regulatory_context(Get(checklist_result, "regulatory_context", EmptyDict)),
         citations |-> citations]

---------------------------------------------------------------------------
(* Configuration and call inputs *)

SharesType == "Private Company Limited by Shares (Non-Financial)"
GuaranteeType == "Private Company Limited by Guarantee (Non-Financial)"
BranchType == "Branch (Non-Financial)"

Req(name, mandatory) ==
    [name |-> name, mandatory |-> mandatory, applies_if |-> "always",
     sources |-> <<"https://example.com">>]

\* three mandatory requirements
IncorporationChecklist ==
    [process |-> "Company Incorporation", entity_type |-> SharesType,
     requirements |-> <<Req("Articles of Association", TRUE),
                        Req("Register of Members and Directors", TRUE),
                        Req("UBO Declaration", TRUE)>>]

\* mandatory and optional requirements, one with only a name and a condition
MixedChecklist ==
    [process |-> "Annual Filings",
     requirements |-> <<Req("Annual Return", FALSE),
                        Req("Articles of Association", TRUE),
                        [name |-> "Registered Office Notice",
                         applies_if |-> "entity_type == 'Branch'"],
                        Req("Other Papers", FALSE),
                        Req("Name Reservation", TRUE)>>]

\* no mandatory requirement
OptionalChecklist ==
    [process |-> "Employment", entity_type |-> "",
     requirements |-> <<Req("Employment Contract", FALSE), Req("Other Papers", FALSE)>>]

\* the checklists check_requirements is called with
ChecklistPool == {IncorporationChecklist, MixedChecklist, OptionalChecklist, EmptyDict}

\* the requirement names _check_requirement_presence is called with
ReqNames == {"Articles of Association", "Register of Members and Directors",
             "UBO Declaration", "Annual Return", "Name Reservation",
             "Registered Office Notice", "Other Papers"}

Item(key, value) == [key |-> key, value |-> value]

\* what _load_checklists can leave in self.checklists: each checklist under its
\* process field, or under its file's stem when it has none
ChecklistsA ==
    <<Item("Company Incorporation", IncorporationChecklist),
      Item("Employment", OptionalChecklist)>>

ChecklistsB ==
    <<Item("Incorporation",
           [process |-> "Incorporation", entity_type |-> BranchType,
            requirements |-> <<Req("Name Reservation", TRUE)>>]),
      Item("Company Incorporation",
           [process |-> "Company Incorporation", entity_type |-> "Limited by Guarantee",
            requirements |-> <<Req("Articles of Association", TRUE),
                               Req("Other Papers", FALSE)>>]),
      Item("annual filings 2024", [requirements |-> MixedChecklist.requirements]),
      Item("review", EmptyDict)>>

ChecklistsNone == <<>>

\* red-flag rules, as the items of a rule set's `rules` mapping
JurisdictionRule ==
    Item("jurisdiction_mismatch",
         [kind |-> "pattern_presence",
          patterns_any |-> <<"UAE Federal Courts", "Dubai Courts">>,
          require_phrase |-> "ADGM Courts",
          severity |-> "High",
          message |-> "Jurisdiction mismatch: courts other than ADGM Courts",
          citations |-> <<"ADGM Courts Regulations 2015">>])

\* pattern_presence with an entity gate and no require_phrase
ShareCapitalRule ==
    Item("share_capital_in_guarantee",
         [kind |-> "pattern_presence",
          trigger_if |-> <<"entity_type == 'Private Company Limited by Guarantee (Non-Financial)'">>,
          patterns_any |-> <<"shares issued", "share capital">>,
          severity |-> "High",
          message |-> "Reference to share capital in a company limited by guarantee"])

\* pattern_presence with nothing but its patterns
FederalCourtsRule ==
    Item("federal_courts",
         [kind |-> "pattern_presence", patterns_any |-> <<"Federal Courts">>])

\* an entity gate of two conditions, one of them in double quotes
CapitalRule ==
    Item("capital_without_shares",
         [kind |-> "semantic_check",
          trigger_if |-> <<"entity_type == \"Branch (Non-Financial)\"",
                           "entity_type == 'Private Company Limited by Guarantee (Non-Financial)'">>,
          forbidden_phrases |-> <<"shares issued", "share capital">>,
          citations |-> <<"ADGM Companies Regulations 2020",
                          "https://adgm.example/companies">>])

\* a trigger_if condition that is not on the entity type
EmploymentRule ==
    Item("employment_courts",
         [kind |-> "semantic_check",
          trigger_if |-> <<"process == 'Employment'">>,
          forbidden_phrases |-> <<"UAE Federal Courts">>,
          message |-> "Employment contract under non-ADGM courts"])

IncorporationOnlyRule ==
    Item("incorporation_courts",
         [kind |-> "semantic_check",
          applies_if |-> "process == 'Company Incorporation'",
          applies_to_docs |-> <<"contract.docx">>,
          forbidden_phrases |-> <<"Federal Courts">>])

SignatureRule ==
    Item("missing_signature",
         [kind |-> "structural_check",
          checks |-> <<"has_signatory_name", "has_capacity", "has_signature_or_e-sign",
                       "has_date">>,
          severity |-> "Medium"])

TemplateRule ==
    Item("template_text",
         [kind |-> "heuristic",
          indicators_any |-> <<"Template fields left blank", "Lorem ipsum text">>])

\* the rules _apply_redflag_rule is called with
RulePool == {JurisdictionRule, ShareCapitalRule, FederalCourtsRule, CapitalRule,
             EmploymentRule, IncorporationOnlyRule, SignatureRule, TemplateRule}

\* the rules _check_pattern_presence_rule is called with
PatternRules == {r \in RulePool : r.value.kind = "pattern_presence"}

\* the documents the rules are applied to
RuleDocs ==
    <<DocPool[4], DocPool[5], DocPool[6],
      Doc("signed.docx", "Signed by John Smith, Director, on 15/01/2024"),
      Doc("template.docx", "Lorem Ipsum draft for [[COMPANY_NAME]]")>>

RuleDocLists == SeqsUpTo({RuleDocs[i] : i \in 1..Len(RuleDocs)}, MaxDocs)

\* the detected process and entity type the rules are applied under
RuleContexts ==
    {[process |-> "Company Incorporation", entity_type |-> SharesType],
     [process |-> "Company Incorporation", entity_type |-> GuaranteeType],
     [process |-> "Employment", entity_type |-> BranchType]}

\* the documents check_redflags is called with; two of them have the same file name
RedflagDocs ==
    <<DocPool[4], DocPool[5], RuleDocs[5],
      Doc("contract.docx", "Agreement with Share Capital clause under Dubai Courts")>>

RedflagDocLists == SeqsUpTo({RedflagDocs[i] : i \in 1..Len(RedflagDocs)}, MaxDocs)

\* the detected process and entity type check_redflags is called with
RedflagContexts ==
    {[process |-> "Company Incorporation", entity_type |-> GuaranteeType],
     [process |-> "Employment", entity_type |-> BranchType],
     [process |-> GeneralReview, entity_type |-> SharesType]}

\* what _load_redflag_rules can leave in self.redflag_rules: each rule set under
\* its scope, or under its file's stem when it has none
RuleSetsA ==
    <<Item("General Corporate Docs",
           [scope |-> "General Corporate Docs",
            rules |-> <<JurisdictionRule, SignatureRule, TemplateRule>>]),
      Item("Company Incorporation",
           [scope |-> "Company Incorporation",
            rules |-> <<ShareCapitalRule, CapitalRule, IncorporationOnlyRule>>])>>

RuleSetsB ==
    <<Item("employment", [rules |-> <<EmploymentRule, FederalCourtsRule>>]),
      Item("General Corporate Docs",
           [scope |-> "General Corporate Docs", rules |-> <<TemplateRule>>]),
      Item("incorporation", [rules |-> <<CapitalRule, IncorporationOnlyRule>>])>>

RuleSetsNone == <<>>

\* the loaded configuration of one installation
Deployment(dict, rule_sets) == [checklists |-> dict, redflag_rules |-> rule_sets]

DeploymentA == Deployment(ChecklistsA, RuleSetsA)

Deployments ==
    {DeploymentA, Deployment(ChecklistsB, RuleSetsB),
     Deployment(ChecklistsNone, RuleSetsNone)}

\* the files analyze_documents is called with
FilePool ==
    {File("uploads/" \o DocPool[1].filename, Some(DocPool[1].full_text)),
     File("uploads/" \o DocPool[3].filename, Some(DocPool[3].full_text)),
     File("Contract.DOCX", Some(DocPool[4].full_text)),
     File("uploads/v1.2/" \o DocPool[6].filename, Some(DocPool[6].full_text)),
     File("uploads/" \o RuleDocs[5].filename, Some(RuleDocs[5].full_text)),
     File("uploads/corrupt.docx", None),
     File("uploads.docx/notes.txt", Some("Employment Contract")),
     File("uploads/deed.docx", Some("Deed of Guarantee")),
     File("uploads/secretary.docx", Some("Company Secretary appointment"))}

FileLists == SeqsUpTo(FilePool, MaxDocs)

\* a document the retriever returns; the similarity score is in hundredths
RetrievedDoc(title, source_url, similarity_score) ==
    [text |-> title, metadata |-> [title |-> title, source_url |-> source_url],
     similarity_score |-> similarity_score, distance |-> 100 - similarity_score]

\* what retrieve_and_rerank can return to _get_regulatory_context
RetrievalOutcomes ==
    {<<>>,
     <<RetrievedDoc("Companies Regulations 2020", "https://adgm.example/companies", 82)>>,
     <<RetrievedDoc("Companies Regulations 2020", "https://adgm.example/companies", 82),
       [text |-> "Guidance", similarity_score |-> 71],
       RetrievedDoc("Employment Regulations 2019", "https://adgm.example/employment", 64),
       RetrievedDoc("Courts Regulations 2015", "https://adgm.example/courts", 40)>>}

ProcessInputs == {"Company Incorporation", "Employment", "Unknown Process",
                  "incorporation", "General Review", "Annual Filings"}

EntityInputs == {SharesType, GuaranteeType, BranchType, "", "Any Entity Type",
                 "limited by shares"}

\* the checklists _checklist_applies is called with
AppliesInputs ==
    {[entity_type |-> SharesType], [entity_type |-> "Private Company Limited by Shares"],
     [entity_type |-> ""], EmptyDict, [entity_type |-> "Different Entity Type"],
     [entity_type |-> "BRANCH"]}

\* bound on the denominator of the scores _get_compliance_status is called with
MaxScoreDen == 10

\* the scores k/n, and those of the unit test
ScoreInputs ==
    {f \in [num : 0..MaxScoreDen, den : 1..MaxScoreDen] : f.num <= f.den}
    \cup {Fraction(95, 100), Fraction(75, 100), Fraction(60, 100), Fraction(30, 100)}

\* bound on the number of entries of the collection
MaxCandidates == 3

\* a chunk of the collection and its distance to the query, in hundredths
Chunk(document, source_url, distance) ==
    [document |-> document, metadata |-> [title |-> document, source_url |-> source_url],
     distance |-> distance]

\* entries by increasing distance: the similarities are 82, 35, 20 and -30
ChunkPool ==
    <<Chunk("Companies Regulations 2020", "https://adgm.example/companies", 18),
      Chunk("Employment Regulations 2019", "https://adgm.example/employment", 65),
      Chunk("Courts Regulations 2015", "https://adgm.example/courts", 80),
      Chunk("Data Protection Regulations 2021", "https://adgm.example/data", 130)>>

\* the entries of the pool at the positions S, in the order of the pool
ChunksAt(S) ==
    [i \in 1..Cardinality(S) |->
        ChunkPool[CHOOSE x \in S : Cardinality({y \in S : y < x}) = i - 1]]

\* the collections: the store answers with the nearest entries first
Collections ==
    {ChunksAt(S) : S \in {T \in SUBSET DOMAIN ChunkPool : Cardinality(T) <= MaxCandidates}}

\* what embeddings.create answers for a query
EmbeddingResponses ==
    {Returned(<<3, 4>>), Raised("APIError", "embedding request failed")}

\* the cosine similarity of a text with the query, in hundredths
RerankScores == {20, 50, 90}

\* what embeddings.create answers for the texts of the documents: the vectors
\* are kept as the cosine similarity _cosine_similarity computes from each
SimilarityResponses ==
    {Raised("APIError", "embedding request failed")}
    \cup {Returned(f) : f \in [{ChunkPool[i].document : i \in DOMAIN ChunkPool} -> RerankScores]}

\* the embedding service and the vector store during one call
Services ==
    [query_embedding : EmbeddingResponses, store_raises : BOOLEAN,
     collection : Collections, rerank_embedding : EmbeddingResponses,
     doc_similarities : SimilarityResponses]

\* the settings of config/settings.yml: none, and two with small limits
RagDefaults == RagSettings(EmptyDict)

RagPool ==
    {RagDefaults,
     RagSettings([rag |-> [top_k |-> 3, rerank_k |-> 2]]),
     RagSettings([rag |-> [top_k |-> 2, rerank_k |-> 3, min_score |-> 20]])}

Queries == {"Company Incorporation Private Company requirements"}

\* bound on the number of requirements of the checklist behind a report
MaxMissing == 2

\* requirements none of the report documents provides: optional, mandatory, and
\* mandatory by default
ReportRequirements ==
    {Req("Certificate of Good Standing", FALSE), Req("Register of Members", TRUE),
     [name |-> "Name Reservation"]}

\* the checklists: the requirements in any order, none twice
ReportChecklists ==
    {[process |-> "Company Incorporation", requirements |-> requirements] :
        requirements \in {list \in SeqsUpTo(ReportRequirements, MaxMissing) :
                             Cardinality(Elements(list)) = Len(list)}}

\* the document sets analysed: without issue, with several issues on one document,
\* with the issue of one rule on two documents, with an issue that cites nothing,
\* with an issue on a document whose filename ends the filename of an earlier one
ReportDocLists ==
    {<<RuleDocs[3]>>, <<RedflagDocs[4]>>, <<DocPool[4], RedflagDocs[4]>>, <<RuleDocs[5]>>,
     <<Doc("draft_contract.docx", "Some random document content"), DocPool[4]>>}

\* the analysis results under the rule sets A
ReportAnalyses ==
    {Analysis(RuleSetsA, documents, "Company Incorporation", GuaranteeType) :
        documents \in ReportDocLists}

\* the arguments of build_report: an analysis result, the payload
\* generate_gap_report returns for it, and the red flags of the analysis; the
\* payload is the gap report under a checklist, or the error payload when no
\* checklist is loaded; `checklist` records the checklist behind the payload
ReportInputs ==
    {[analysis_result |-> analysis_result,
      checklist_result |->
          GapReport(analysis_result.process, analysis_result.entity_type,
                    analysis_result.documents, checklist,
                    check_requirements(analysis_result.documents, checklist),
                    relevant_docs),
      redflags |-> Get(analysis_result, "redflags", <<>>),
      checklist |-> Some(checklist)] :
        analysis_result \in ReportAnalyses, checklist \in ReportChecklists,
        relevant_docs \in RetrievalOutcomes}
    \cup {[analysis_result |-> analysis_result,
           checklist_result |-> generate_gap_report(ChecklistsNone, analysis_result, <<>>),
           redflags |-> Get(analysis_result, "redflags", <<>>),
           checklist |-> None] :
             analysis_result \in ReportAnalyses}

---------------------------------------------------------------------------
(* Calls *)

NoValue == "None"

DetectProcess ==
    \E documents \in DocLists :
        /\ pc = "idle"
        /\ pc' = "detect_process"
        /\ inp' = [documents |-> documents]
        /\ out' = detect_process(documents)
        /\ calls' = <<>>
        /\ UNCHANGED <<checklists, redflag_rules, rag>>
\* the phrases of the guarantee and branch texts of test_entity_type_detection
GuaranteePhrases == <<"Limited by Guarantee", "Guarantee Company", "No Share Capital">>

BranchPhrases == <<"Branch Office", "Branch Registration", "Foreign Company">>

\* the texts made of the phrases only: each phrase, and all of them on successive lines
PhraseTexts(phrases) == {phrases[i] : i \in 1..Len(phrases)} \cup {Join(phrases, "\n")}

\* the document lists of test_entity_type_detection: one list of texts per phrase table
PhraseDocLists ==
    UNION {SeqsUpTo({[full_text |-> text] : text \in PhraseTexts(phrases)}, MaxDocs) :
              phrases \in {GuaranteePhrases, BranchPhrases}}

DetectEntityType ==
    \E documents \in DocLists \cup PhraseDocLists :
        /\ pc = "idle"
        /\ pc' = "detect_entity_type"
        /\ inp' = [documents |-> documents]
        /\ out' = detect_entity_type(documents)
        /\ calls' = <<>>
        /\ UNCHANGED <<checklists, redflag_rules, rag>>

GetApplicableChecklist ==
    \E process \in ProcessInputs, entity_type \in EntityInputs :
        /\ pc = "idle"
        /\ pc' = "get_applicable_checklist"
        /\ inp' = [process |-> process, entity_type |-> entity_type]
        /\ out' = get_applicable_checklist(checklists, process, entity_type)
        /\ calls' = <<>>
        /\ UNCHANGED <<checklists, redflag_rules, rag>>

ChecklistApplies ==
    \E checklist \in AppliesInputs, entity_type \in EntityInputs :
        /\ pc = "idle"
        /\ pc' = "_checklist_applies"
        /\ inp' = [checklist |-> checklist, entity_type |-> entity_type]
        /\ out' = _checklist_applies(checklist, entity_type)
        /\ calls' = <<>>
        /\ UNCHANGED <<checklists, redflag_rules, rag>>

CheckRequirements ==
    \E documents \in DocLists, checklist \in ChecklistPool :
        /\ pc = "idle"
        /\ pc' = "check_requirements"
        /\ inp' = [documents |-> documents, checklist |-> checklist]
        /\ out' = check_requirements(documents, checklist)
        /\ calls' = <<>>
        /\ UNCHANGED <<checklists, redflag_rules, rag>>

\* _check_requirement_presence, called as check_requirements calls it
CheckRequirementPresence ==
    \E documents \in DocLists, req_name \in ReqNames :
        LET doc_names == LowerAll(Filenames(documents), 1)
            doc_contents == LowerAll(FullTexts(documents), 1)
            combined_content == Join(doc_contents, " ")
        IN  /\ pc = "idle"
            /\ pc' = "_check_requirement_presence"
            /\ inp' = [req_name |-> req_name, doc_names |-> doc_names,
                       doc_contents |-> doc_contents,
                       combined_content |-> combined_content]
            /\ out' = _check_requirement_presence(req_name, doc_names, doc_contents,
                                                  combined_content)
            /\ calls' = <<>>
            /\ UNCHANGED <<checklists, redflag_rules, rag>>

GetComplianceStatus ==
    \E compliance_score \in ScoreInputs :
        /\ pc = "idle"
        /\ pc' = "_get_compliance_status"
        /\ inp' = [requirement_results |-> [compliance_score |-> compliance_score]]
        /\ out' = _get_compliance_status([compliance_score |-> compliance_score])
        /\ calls' = <<>>
        /\ UNCHANGED <<checklists, redflag_rules, rag>>

CheckPatternPresenceRule ==
    \E rule \in PatternRules, d \in 1..Len(RuleDocs) :
        /\ pc = "idle"
        /\ pc' = "_check_pattern_presence_rule"
        /\ inp' = [rule_name |-> rule.key, rule_config |-> rule.value,
                   doc_name |-> RuleDocs[d].filename, doc_text |-> RuleDocs[d].full_text]
        /\ out' = _check_pattern_presence_rule(rule.key, rule.value,
                                               RuleDocs[d].filename,
                                               RuleDocs[d].full_text)
        /\ calls' = <<>>
        /\ UNCHANGED <<checklists, redflag_rules, rag>>
\* the checks lists of the structural rules: none, one probe, several probes in
\* and out of the order of the code, all probes, a probe the code does not know
StructuralChecks ==
    {<<>>, <<"has_date">>, <<"has_capacity">>, <<"has_signatory_name", "has_capacity">>,
     <<"has_date", "has_signature_or_e-sign">>, <<"has_seal", "has_signatory_name">>,
     SignatureRule.value.checks}

\* the structural rules _check_structural_rule is called with; one has no checks
\* and no severity
StructuralRules ==
    {Item("missing_signature", [kind |-> "structural_check", checks |-> checks, severity |-> "High"]) : checks \in StructuralChecks}
    \cup {Item("missing_signature", [kind |-> "structural_check"]),
          Item("missing_date", [kind |-> "structural_check", checks |-> <<"has_date">>])}

\* the documents the structural rules are applied to
StructuralDocs ==
    RuleDocs \o <<Doc("dated.docx", "Signed on 15/01/2024"),
                  Doc("approval.docx", "Approved by the Director")>>

CheckStructuralRule ==
    \E rule \in StructuralRules, d \in 1..Len(StructuralDocs) :
        /\ pc = "idle"
        /\ pc' = "_check_structural_rule"
        /\ inp' = [rule_name |-> rule.key, rule_config |-> rule.value,
                   doc_name |-> StructuralDocs[d].filename,
                   doc_text |-> StructuralDocs[d].full_text]
        /\ out' = _check_structural_rule(rule.key, rule.value,
                                         StructuralDocs[d].filename,
                                         StructuralDocs[d].full_text)
        /\ calls' = <<>>
        /\ UNCHANGED <<checklists, redflag_rules, rag>>
\* the indicator lists of the heuristic rules: none, each indicator alone, both in
\* either order, an indicator the code does not know
HeuristicIndicators ==
    {<<>>, <<"Template fields left blank">>, <<"Lorem ipsum">>,
     <<"Template fields left blank", "Lorem ipsum">>,
     <<"Lorem ipsum", "Template fields left blank">>,
     <<"Unsigned draft", "Lorem ipsum">>, <<"Unsigned draft">>}

\* the heuristic rules _check_heuristic_rule is called with: with and without
\* severity and message
HeuristicRules ==
    {Item("template_text", [kind |-> "heuristic", indicators_any |-> indicators]) : indicators \in HeuristicIndicators}
    \cup {Item("draft_text", [kind |-> "heuristic", indicators_any |-> indicators, severity |-> "High", message |-> "Draft text found"]) : indicators \in HeuristicIndicators}
    \cup {Item("template_text", [kind |-> "heuristic"])}

\* the documents the heuristic rules are applied to: placeholders, underscore runs
\* of four, three and two, lorem ipsum in three letter cases, an unclosed bracket
HeuristicDocs ==
    <<RuleDocs[3], RuleDocs[5],
      Doc("form.docx", "Date: ____"),
      Doc("form3.docx", "Name: ___ Director"),
      Doc("form2.docx", "Name: __ Director"),
      Doc("draft.docx", "Lorem ipsum dolor sit amet"),
      Doc("draft2.docx", "Text LOREM IPSUM dolor"),
      Doc("draft3.docx", "lorem ipsum and Address: [[ADDRESS]]"),
      Doc("open.docx", "Address: [[ADDRESS]")>>

CheckHeuristicRule ==
    \E rule \in HeuristicRules, d \in 1..Len(HeuristicDocs) :
        /\ pc = "idle"
        /\ pc' = "_check_heuristic_rule"
        /\ inp' = [rule_name |-> rule.key, rule_config |-> rule.value,
                   doc_name |-> HeuristicDocs[d].filename,
                   doc_text |-> HeuristicDocs[d].full_text]
        /\ out' = _check_heuristic_rule(rule.key, rule.value,
                                        HeuristicDocs[d].filename,
                                        HeuristicDocs[d].full_text)
        /\ calls' = <<>>
        /\ UNCHANGED <<checklists, redflag_rules, rag>>

ApplyRedflagRule ==
    \E rule \in RulePool, documents \in RuleDocLists, context \in RuleContexts :
        /\ pc = "idle"
        /\ pc' = "_apply_redflag_rule"
        /\ inp' = [rule_name |-> rule.key, rule_config |-> rule.value,
                   documents |-> documents, process |-> context.process,
                   entity_type |-> context.entity_type]
        /\ out' = _apply_redflag_rule(rule.key, rule.value, documents, context.process,
                                      context.entity_type)
        /\ calls' = <<>>
        /\ UNCHANGED <<checklists, redflag_rules, rag>>

CheckRedflags ==
    \E documents \in RedflagDocLists, context \in RedflagContexts :
        /\ pc = "idle"
        /\ pc' = "check_redflags"
        /\ inp' = [documents |-> documents, process |-> context.process,
                   entity_type |-> context.entity_type]
        /\ out' = check_redflags(redflag_rules, documents, context.process,
                                 context.entity_type)
        /\ calls' = <<>>
        /\ UNCHANGED <<checklists, redflag_rules, rag>>
\* analyze_documents after which the rule sets are used up
AnalyzeDocumentsConsumingRules ==
    \E file_paths \in FileLists :
        /\ pc = "idle"
        /\ pc' = "analyze_documents"
        /\ inp' = [file_paths |-> file_paths]
        /\ out' = analyze_documents(redflag_rules, file_paths)
        /\ calls' = <<>>
        /\ redflag_rules' = RuleSetsNone
        /\ UNCHANGED <<checklists, rag>>

\* analyze_documents, from parsing to the red-flag check
AnalyzeDocuments ==
    \E file_paths \in FileLists :
        /\ pc = "idle"
        /\ pc' = "analyze_documents"
        /\ inp' = [file_paths |-> file_paths]
        /\ out' = analyze_documents(redflag_rules, file_paths)
        /\ calls' = <<>>
        /\ UNCHANGED <<checklists, redflag_rules, rag>>
\* analyze_documents called a second time on the same files, by the same instance
AnalyzeDocumentsAgain ==
    /\ pc = "analyze_documents"
    /\ pc' = "analyze_documents_again"
    /\ inp' = inp
    /\ out' = analyze_documents(redflag_rules, inp.file_paths)
    /\ calls' = <<>>
    /\ UNCHANGED <<checklists, redflag_rules, rag>>

\* generate_gap_report on the result of the analysis, as the application calls it;
\* the retriever's answer is the environment's
GenerateGapReport ==
    \E relevant_docs \in RetrievalOutcomes :
        /\ pc = "analyze_documents"
        /\ "raised" \notin DOMAIN out
        /\ pc' = "generate_gap_report"
        /\ inp' = [analysis_result |-> out]
        /\ out' = generate_gap_report(checklists, out, relevant_docs)
        /\ calls' = GapReportCalls(checklists, out)
        /\ UNCHANGED <<checklists, redflag_rules, rag>>

\* retrieve_and_rerank; the answers of the embedding service and of the store
\* are the environment's
RetrieveAndRerank ==
    \E query \in Queries, service \in Services :
        /\ pc = "idle"
        /\ pc' = "retrieve_and_rerank"
        /\ inp' = [query |-> query]
        /\ out' = retrieve_and_rerank(rag, service)
        /\ calls' = RetrievalCalls(rag, service)
        /\ UNCHANGED <<checklists, redflag_rules, rag>>

\* build_report; the order of the citations is that of the iteration of a set
BuildReport ==
    \E input \in ReportInputs :
        \E citations \in ListsOf(_collect_citations(input.redflags,
                                                    input.checklist_result)) :
            /\ pc = "idle"
            /\ pc' = "build_report"
            /\ inp' = input
            /\ out' = build_report(input.analysis_result, input.checklist_result,
                                   input.redflags, citations)
            /\ calls' = <<>>
            /\ UNCHANGED <<checklists, redflag_rules, rag>>

\* the caller takes the result; the instance is ready for the next call
Return ==
    /\ pc # "idle"
    /\ pc' = "idle"
    /\ inp' = NoValue
    /\ out' = NoValue
    /\ calls' = <<>>
    /\ UNCHANGED <<checklists, redflag_rules, rag>>

\* no call has been made
Idle ==
    /\ pc = "idle"
    /\ inp = NoValue
    /\ out = NoValue
    /\ calls = <<>>

\* after construction: the configuration is loaded, no call has been made
Init ==
    /\ \E d \in Deployments :
          /\ checklists = d.checklists
          /\ redflag_rules = d.redflag_rules
    /\ rag = RagDefaults
    /\ Idle

\* after construction on the configuration A
InitA ==
    /\ checklists = DeploymentA.checklists
    /\ redflag_rules = DeploymentA.redflag_rules
    /\ rag = RagDefaults
    /\ Idle

\* after construction of the retriever on one of the settings
InitRetrieval ==
    /\ checklists = DeploymentA.checklists
    /\ redflag_rules = DeploymentA.redflag_rules
    /\ rag \in RagPool
    /\ Idle

\* the process and entity classifier
NextClassifier ==
    \/ DetectProcess
    \/ DetectEntityType
    \/ Return

\* the checklist resolution
NextResolution ==
    \/ GetApplicableChecklist
    \/ ChecklistApplies
    \/ Return

\* the requirement matcher and the status bands
NextRequirements ==
    \/ CheckRequirements
    \/ CheckRequirementPresence
    \/ GetComplianceStatus
    \/ Return

\* the red-flag rules
NextRules ==
    \/ CheckPatternPresenceRule
    \/ CheckStructuralRule
    \/ CheckHeuristicRule
    \/ ApplyRedflagRule
    \/ Return

\* the red-flag check over the loaded rule sets
NextRedflags ==
    \/ CheckRedflags
    \/ Return

\* the retrieval pipeline
NextRetrieval ==
    \/ RetrieveAndRerank
    \/ Return

\* the report builder
NextReport ==
    \/ BuildReport
    \/ Return

\* the analysis followed by the gap report
NextPipeline ==
    \/ AnalyzeDocuments
    \/ AnalyzeDocumentsAgain
    \/ GenerateGapReport
    \/ Return

Next ==
    \/ NextClassifier
    \/ NextResolution
    \/ NextRequirements
    \/ NextRules
    \/ NextRedflags
    \/ NextRetrieval
    \/ NextReport
    \/ NextPipeline

\* the calls of the classifier and of the matcher read no configuration
SpecClassifier == InitA /\ [][NextClassifier]_vars

SpecResolution == Init /\ [][NextResolution]_vars

SpecRequirements == InitA /\ [][NextRequirements]_vars

SpecRules == InitA /\ [][NextRules]_vars

SpecRedflags == Init /\ [][NextRedflags]_vars

SpecRetrieval == InitRetrieval /\ [][NextRetrieval]_vars

SpecReport == InitA /\ [][NextReport]_vars

SpecPipeline == Init /\ [][NextPipeline]_vars

Spec == Init /\ [][Next]_vars

---------------------------------------------------------------------------
(* Claims *)

\* the text detect_process and detect_entity_type search: all documents' text,
\* joined by blanks, case-folded
CombinedFolded(documents) == Lower(Join(FullTexts(documents), " "))

\* C1: detect_process returns the process whose patterns have the largest total
\* number of matches in the concatenated case-folded text; among several with that
\* count the one declared first; "General Review" when every process scores 0.
C1_DetectProcessFirstLargest ==
    pc = "detect_process" =>
        LET scores == ProcessScores(inp.documents)
            N == Len(process_patterns)
        IN  IF \A i \in 1..N : scores[i] = 0
            THEN out = GeneralReview
            ELSE \E i \in 1..N :
                    /\ out = process_patterns[i].name
                    /\ \A j \in 1..N : scores[j] <= scores[i]
                    /\ \A j \in 1..(i - 1) : scores[j] < scores[i]

\* a tie for the largest count between Employment and Post Registration, settled
\* for the one declared first
C1_Witness ==
    /\ pc = "detect_process"
    /\ LET scores == ProcessScores(inp.documents)
       IN  scores[2] = scores[3] /\ scores[2] > scores[1] /\ scores[2] > scores[4]
    /\ out = "Employment"

RequirementFound(requirement, documents) ==
    LET doc_names == LowerAll(Filenames(documents), 1)
        doc_contents == LowerAll(FullTexts(documents), 1)
    IN  _check_requirement_presence(Get(requirement, "name", ""), doc_names,
                                    doc_contents, Join(doc_contents, " ")) # None

\* the checklist without its non-mandatory requirements
MandatoryOnly(checklist) ==
    LET requirements == Get(checklist, "requirements", <<>>)
        kept == SortedSeq({i \in 1..Len(requirements) :
                              Get(requirements[i], "mandatory", TRUE)})
    IN  [requirements |-> [k \in 1..Len(kept) |-> requirements[kept[k]]]]

\* C3: compliance_score = (mandatory requirements found) / (mandatory requirements
\* of the checklist), between 0 and 1; 0 when the checklist has no mandatory
\* requirement; non-mandatory requirements do not change it.
C3_ComplianceScore ==
    pc = "check_requirements" =>
        LET requirements == Get(inp.checklist, "requirements", <<>>)
            mandatory == {i \in 1..Len(requirements) :
                             Get(requirements[i], "mandatory", TRUE)}
            found == {i \in mandatory : RequirementFound(requirements[i], inp.documents)}
            score == out.compliance_score
        IN  /\ score.den > 0
            /\ 0 <= score.num /\ score.num <= score.den
            /\ IF mandatory = {} THEN score.num = 0
               ELSE score.num * Cardinality(mandatory) = Cardinality(found) * score.den
            /\ LET alone == check_requirements(inp.documents,
                                               MandatoryOnly(inp.checklist)).compliance_score
               IN  alone.num * score.den = score.num * alone.den

\* a checklist with a found optional requirement, a found mandatory one and a
\* missing mandatory one
C3_Witness ==
    /\ pc = "check_requirements"
    /\ \E k \in 1..Len(out.found_requirements) : ~out.found_requirements[k].mandatory
    /\ \E k \in 1..Len(out.found_requirements) : out.found_requirements[k].mandatory
    /\ \E k \in 1..Len(out.missing_requirements) : out.missing_requirements[k].mandatory
    /\ out.compliance_score.num > 0
    /\ out.compliance_score.num < out.compliance_score.den

\* the file name channel: the requirement name, or one of its words, in a file name
NameChannel(req_name, doc_names) ==
    \E i \in 1..Len(doc_names) :
        \/ Contains(Lower(req_name), doc_names[i])
        \/ \E w \in 1..Len(Split(Lower(req_name))) :
              Contains(Split(Lower(req_name))[w], doc_names[i])

\* the verbatim-content channel: the requirement name in a document's text
ContentChannel(req_name, doc_contents) ==
    \E i \in 1..Len(doc_contents) : Contains(Lower(req_name), doc_contents[i])

\* the pattern channel: a pattern of the requirement in the combined text
PatternChannel(req_name, combined_content) ==
    \E k \in 1..Len(_get_requirement_patterns(req_name)) :
        ReSearchFolded(_get_requirement_patterns(req_name)[k], combined_content)

Weight(fired, tenths) == IF fired THEN tenths ELSE 0

\* C4: confidence = min(1.0, 0.6 [file name] + 0.3 [content] + 0.1 [pattern]), as
\* floats; found iff some channel fired; one more channel never lowers the
\* confidence; file name alone > content alone > pattern alone.
C4_Confidence ==
    /\ pc = "_check_requirement_presence" =>
        LET a == NameChannel(inp.req_name, inp.doc_names)
            b == ContentChannel(inp.req_name, inp.doc_contents)
            c == PatternChannel(inp.req_name, inp.combined_content)
            sum == FloatAdd(FloatAdd(FloatAdd(Double(0, 0), Weight(a, 6)), Weight(b, 3)),
                            Weight(c, 1))
        IN  /\ (out # None) <=> (a \/ b \/ c)
            /\ out # None =>
                 /\ out[1].confidence = FloatMinOne(sum)
                 /\ FloatLess(Double(0, 0), out[1].confidence)
    /\ \A a \in BOOLEAN, b \in BOOLEAN, c \in BOOLEAN :
          /\ ~FloatLess(Confidence(TRUE, b, c), Confidence(a, b, c))
          /\ ~FloatLess(Confidence(a, TRUE, c), Confidence(a, b, c))
          /\ ~FloatLess(Confidence(a, b, TRUE), Confidence(a, b, c))
    /\ FloatLess(Confidence(FALSE, TRUE, FALSE), Confidence(TRUE, FALSE, FALSE))
    /\ FloatLess(Confidence(FALSE, FALSE, TRUE), Confidence(FALSE, TRUE, FALSE))

\* a requirement found by file name and by pattern, not by content
C4_Witness ==
    /\ pc = "_check_requirement_presence"
    /\ NameChannel(inp.req_name, inp.doc_names)
    /\ ~ContentChannel(inp.req_name, inp.doc_contents)
    /\ PatternChannel(inp.req_name, inp.combined_content)
    /\ out # None
    /\ out[1].confidence = Double(7, 0)

\* a is in b, letter case ignored
InIgnoringCase(a, b) == Contains(Lower(a), Lower(b))

\* C5: get_applicable_checklist tries the exact key, then the keys that contain
\* the process or are contained in it (case-insensitively), then the declared
\* process fields equal to it (case-insensitively), and returns the first of them,
\* in that order, that is entity-type compatible; None when there is none.
C5_ResolutionOrder ==
    pc = "get_applicable_checklist" =>
        LET N == Len(checklists)
            exact == SortedSeq({i \in 1..N : checklists[i].key = inp.process})
            partial == SortedSeq({i \in 1..N :
                          \/ InIgnoringCase(inp.process, checklists[i].key)
                          \/ InIgnoringCase(checklists[i].key, inp.process)})
            field == SortedSeq({i \in 1..N :
                          /\ "process" \in DOMAIN checklists[i].value
                          /\ checklists[i].value.process # ""
                          /\ Lower(checklists[i].value.process) = Lower(inp.process)})
            tried == exact \o partial \o field
            compatible == {k \in 1..Len(tried) :
                              _checklist_applies(checklists[tried[k]].value,
                                                 inp.entity_type)}
        IN  IF compatible = {} THEN out = None
            ELSE out = Some(checklists[tried[Min(compatible)]].value)

\* the checklist under the exact key is not compatible, one under a partially
\* matching key is, and is returned
C5_Witness ==
    /\ pc = "get_applicable_checklist"
    /\ \E i \in 1..Len(checklists) :
          /\ checklists[i].key = inp.process
          /\ ~_checklist_applies(checklists[i].value, inp.entity_type)
    /\ out # None
    /\ \E i \in 1..Len(checklists) :
          /\ checklists[i].key # inp.process
          /\ out = Some(checklists[i].value)

\* C6: _checklist_applies is true exactly when the checklist declares no
\* entity_type, or the two strings are equal, or one is a case-insensitive
\* substring of the other.
C6_ChecklistApplies ==
    pc = "_checklist_applies" =>
        LET declared == IF "entity_type" \in DOMAIN inp.checklist
                        THEN inp.checklist.entity_type ELSE ""
        IN  out = (\/ declared = ""
                   \/ inp.entity_type = declared
                   \/ InIgnoringCase(inp.entity_type, declared)
                   \/ InIgnoringCase(declared, inp.entity_type))

\* the checklist's entity type is a proper substring of the entity type, in
\* another letter case
C6_Witness ==
    /\ pc = "_checklist_applies"
    /\ "entity_type" \in DOMAIN inp.checklist
    /\ inp.checklist.entity_type # ""
    /\ inp.checklist.entity_type # inp.entity_type
    /\ ~Contains(inp.checklist.entity_type, inp.entity_type)
    /\ ~InIgnoringCase(inp.entity_type, inp.checklist.entity_type)
    /\ out = TRUE

Band(status) ==
    CASE status = "Compliant" -> 3
      [] status = "Mostly Compliant" -> 2
      [] status = "Partially Compliant" -> 1
      [] status = "Non-Compliant" -> 0

\* s < a / b for a fraction s
FractionBelow(s, a, b) == s.num * b < a * s.den

\* C8: Compliant if s >= 0.9, Mostly Compliant if 0.7 <= s < 0.9, Partially
\* Compliant if 0.5 <= s < 0.7, Non-Compliant if s < 0.5; the band is
\* non-decreasing in s.
C8_StatusBands ==
    pc = "_get_compliance_status" =>
        LET s == inp.requirement_results.compliance_score
        IN  /\ out \in {"Compliant", "Mostly Compliant", "Partially Compliant",
                        "Non-Compliant"}
            /\ (out = "Compliant") <=> ~FractionBelow(s, 9, 10)
            /\ (out = "Mostly Compliant") <=>
                  (~FractionBelow(s, 7, 10) /\ FractionBelow(s, 9, 10))
            /\ (out = "Partially Compliant") <=>
                  (~FractionBelow(s, 5, 10) /\ FractionBelow(s, 7, 10))
            /\ (out = "Non-Compliant") <=> FractionBelow(s, 5, 10)
            /\ \A lower \in ScoreInputs :
                  lower.num * s.den <= s.num * lower.den =>
                      Band(_get_compliance_status([compliance_score |-> lower]))
                          <= Band(out)

\* a score of exactly 0.9 is Compliant
C8_Witness ==
    /\ pc = "_get_compliance_status"
    /\ inp.requirement_results.compliance_score.num * 10
          = 9 * inp.requirement_results.compliance_score.den
    /\ out = "Compliant"


\* a member of a list
InList(x, list) == \E k \in 1..Len(list) : list[k] = x

\* C7: generate_gap_report returns one of two shapes: when no checklist applies to
\* (process, entity_type), the payload {error, available_checklists} listing the keys
\* of all loaded checklists, with no requirement check and no retrieval call made;
\* otherwise a payload with requirement_analysis, suggestions, regulatory_context and
\* compliance_status and without an error key.
C7_GapReportShapes ==
    pc = "generate_gap_report" =>
        LET analysis == inp.analysis_result
            applicable == get_applicable_checklist(checklists, analysis.process,
                                                   analysis.entity_type)
        IN  IF applicable = None
            THEN /\ DOMAIN out = {"error", "available_checklists"}
                 /\ out.available_checklists = ChecklistKeys(checklists)
                 /\ ~InList("check_requirements", calls)
                 /\ ~InList("retrieve_and_rerank", calls)
            ELSE /\ {"requirement_analysis", "suggestions", "regulatory_context",
                     "compliance_status"} \subseteq DOMAIN out
                 /\ "error" \notin DOMAIN out

\* a pattern of the rule's patterns_any matches the document text
SomePatternMatches(rule_config, doc_text) ==
    \E k \in 1..Len(Get(rule_config, "patterns_any", <<>>)) :
        ReSearchI(rule_config.patterns_any[k], doc_text)

\* the rule sets a require_phrase
RequirePhraseSet(rule_config) ==
    "require_phrase" \in DOMAIN rule_config /\ rule_config.require_phrase # ""

\* C9: a pattern_presence rule produces an issue for a document exactly when a
\* pattern of patterns_any matches the text and, if require_phrase is set, the
\* phrase does not match the text; a rule without require_phrase fires whenever one
\* of its patterns matches.
C9_PatternPresenceFires ==
    pc = "_check_pattern_presence_rule" =>
        ((out # None) <=>
            /\ SomePatternMatches(inp.rule_config, inp.doc_text)
            /\ RequirePhraseSet(inp.rule_config) =>
                   ~ReSearchI(inp.rule_config.require_phrase, inp.doc_text))

\* the condition is entity_type == 'X' or entity_type == "X" for the entity type X
NamesEntity(condition, entity_type) ==
    \/ condition = "entity_type == '" \o entity_type \o "'"
    \/ condition = "entity_type == \"" \o entity_type \o "\""

\* C10: a rule whose trigger_if list is non-empty produces issues only if one of its
\* entity_type == 'X' conditions names exactly the detected entity type; when none
\* does, it produces no issue for any document.
C10_EntityGate ==
    (/\ pc = "_apply_redflag_rule"
     /\ Get(inp.rule_config, "trigger_if", <<>>) # <<>>
     /\ out # <<>>)
        => \E k \in 1..Len(inp.rule_config.trigger_if) :
               NamesEntity(inp.rule_config.trigger_if[k], inp.entity_type)

\* a gated rule fires on the second of its two conditions
C10_Witness ==
    /\ pc = "_apply_redflag_rule"
    /\ Len(Get(inp.rule_config, "trigger_if", <<>>)) = 2
    /\ ~NamesEntity(inp.rule_config.trigger_if[1], inp.entity_type)
    /\ NamesEntity(inp.rule_config.trigger_if[2], inp.entity_type)
    /\ Len(inp.documents) = 2
    /\ Len(out) = 1


\* the dict without one of its keys
Without(d, key) == [k \in DOMAIN d \ {key} |-> d[k]]

\* no condition of the list is on the entity type
OnlyCustomConditions(trigger_if) ==
    /\ trigger_if # <<>>
    /\ \A k \in 1..Len(trigger_if) : ~Contains("entity_type ==", trigger_if[k])

\* C11: a rule whose trigger_if list holds only conditions that are not of the form
\* entity_type == 'X' is always applicable: for every detected entity type it yields
\* the issues it would yield without the trigger_if list.
C11_CustomTriggerAlwaysApplies ==
    (/\ pc = "_apply_redflag_rule"
     /\ OnlyCustomConditions(Get(inp.rule_config, "trigger_if", <<>>)))
        => out = _apply_redflag_rule(inp.rule_name, Without(inp.rule_config, "trigger_if"),
                                     inp.documents, inp.process, inp.entity_type)


\* the rule set is in scope for the process
InScope(scope, process) ==
    scope = "General Corporate Docs" \/ Contains(Lower(scope), Lower(process))

\* the issues of the rules of one rule set, rule after rule
RuleSetIssues(rule_set, documents, process, entity_type) ==
    LET rules == Get(rule_set, "rules", <<>>)
    IN  Concat([r \in 1..Len(rules) |->
                   _apply_redflag_rule(rules[r].key, rules[r].value, documents, process,
                                       entity_type)], 1)

\* the processes a call is compared across
ComparedProcesses == {c.process : c \in RedflagContexts}

\* C12: check_redflags evaluates a rule set exactly when its scope is "General
\* Corporate Docs" or a case-insensitive substring of the process; a rule of the
\* General Corporate Docs set with applies_if "always" yields the same issues for the
\* same documents and entity type under every process.
C12_RuleSetScope ==
    pc = "check_redflags" =>
        /\ out = Concat([i \in 1..Len(redflag_rules) |->
                            IF InScope(redflag_rules[i].key, inp.process)
                            THEN RuleSetIssues(redflag_rules[i].value, inp.documents,
                                               inp.process, inp.entity_type)
                            ELSE <<>>], 1)
        /\ \A i \in 1..Len(redflag_rules) :
              redflag_rules[i].key = "General Corporate Docs" =>
                  LET rules == Get(redflag_rules[i].value, "rules", <<>>)
                  IN  \A r \in 1..Len(rules) :
                          Get(rules[r].value, "applies_if", "always") = "always" =>
                              LET issues == _apply_redflag_rule(
                                                rules[r].key, rules[r].value,
                                                inp.documents, inp.process,
                                                inp.entity_type)
                              IN  \A process \in ComparedProcesses \ {inp.process} :
                                      _apply_redflag_rule(rules[r].key, rules[r].value,
                                                          inp.documents, process,
                                                          inp.entity_type) = issues

\* a rule set whose scope is a proper part of the process, in another letter case,
\* yields an issue while another rule set is out of scope
C12_Witness ==
    /\ pc = "check_redflags"
    /\ \E i, j \in 1..Len(redflag_rules) :
          /\ redflag_rules[i].key # "General Corporate Docs"
          /\ Len(redflag_rules[i].key) < Len(inp.process)
          /\ ~Contains(redflag_rules[i].key, inp.process)
          /\ InScope(redflag_rules[i].key, inp.process)
          /\ RuleSetIssues(redflag_rules[i].value, inp.documents, inp.process,
                           inp.entity_type) # <<>>
          /\ ~InScope(redflag_rules[j].key, inp.process)
    /\ out # <<>>

\* C13: in the list check_redflags returns, no two issues have both the same rule
\* name and the same document name.
C13_OneIssuePerRuleAndDocument ==
    pc = "check_redflags" =>
        \A i, j \in 1..Len(out) :
            (out[i].rule = out[j].rule /\ out[i].document = out[j].document) => i = j

\* the name resolves to the file name: equal, or one within the other, ignoring case
Resolves(document_name, filename) ==
    \/ Lower(filename) = Lower(document_name)
    \/ Contains(Lower(document_name), Lower(filename))
    \/ Contains(Lower(filename), Lower(document_name))

\* C14: every issue check_redflags returns names, exactly or by case-insensitive
\* substring, the file name of one of the documents that were analyzed.
C14_IssueNamesAnalyzedDocument ==
    pc = "check_redflags" =>
        \A k \in 1..Len(out) :
            \E d \in 1..Len(inp.documents) :
                Resolves(out[k].document, inp.documents[d].filename)

\* issues for two different documents of the call
C14_Witness ==
    /\ pc = "check_redflags"
    /\ Len(inp.documents) = 2
    /\ \E k, l \in 1..Len(out) :
          /\ out[k].document = inp.documents[1].filename
          /\ out[l].document = inp.documents[2].filename
          /\ out[k].document # out[l].document

\* the calls of the given name made during the last call, in order
CallsNamed(name) == SelectSeq(calls, LAMBDA c : c.call = name)

\* the first call to the embedding service gave no embedding
QueryEmbeddingFailed == calls[1].call = "embed_query" /\ calls[1].outcome.returned = <<>>

\* the store was queried
StoreQueried == Len(calls) >= 2 /\ calls[2].call = "collection.query"

StoreFailed == StoreQueried /\ IsRaised(calls[2].outcome)

NoCandidates ==
    /\ StoreQueried
    /\ ~IsRaised(calls[2].outcome)
    /\ Len(calls[2].outcome.returned.documents) = 0

\* C15: retrieve_and_rerank never raises, whichever of the calls to the embedding
\* service, to the vector store and of the reranker fail, and it returns the empty
\* list when the query embedding fails, when the query of the store fails and when
\* the store returns no candidate.
C15_RetrievalNeverRaises ==
    pc = "retrieve_and_rerank" =>
        /\ ~IsRaised(out)
        /\ (QueryEmbeddingFailed \/ StoreFailed \/ NoCandidates) => out = Returned(<<>>)

\* the query of the store raised and the call returned the empty list
C15_Witness ==
    /\ pc = "retrieve_and_rerank"
    /\ StoreFailed
    /\ out = Returned(<<>>)

\* retrieval returned candidates and the reranker was called
Reranked == CallsNamed("rerank_documents") # <<>>

\* the reranker's query embedding failed, or the embedding of the candidates raised
RerankerFailed ==
    /\ Reranked
    /\ \/ calls[4].call = "embed_query" /\ calls[4].outcome.returned = <<>>
       \/ calls[5].call = "embeddings.create" /\ IsRaised(calls[5].outcome)

\* C16: when the reranker fails after retrieval returned candidates (its query
\* embedding fails or the embedding of the candidates raises), retrieve_and_rerank
\* returns the empty list.
C16_RerankerFailureEmptiesResult ==
    (pc = "retrieve_and_rerank" /\ RerankerFailed) => out = Returned(<<>>)

\* the documents leaving the rerank stage
RerankedDocs == CallsNamed("rerank_documents")[1].outcome.returned

\* the position of the document in the list
PositionIn(documents, doc) == CHOOSE i \in DOMAIN documents : documents[i] = doc

\* the documents of result are documents of the list, in the order of the list
KeepsOrder(result, documents) ==
    /\ \A i \in DOMAIN result : \E j \in DOMAIN documents : documents[j] = result[i]
    /\ \A i, j \in DOMAIN result :
          i < j => PositionIn(documents, result[i]) < PositionIn(documents, result[j])

\* C17: whenever retrieval returned a candidate, every document leaving the rerank
\* stage carries a rerank_score, the documents are in non-increasing order of it and
\* at most rerank_k, and the returned list keeps their order.
C17_RerankedSortedAndTruncated ==
    (pc = "retrieve_and_rerank" /\ Reranked) =>
        /\ \A i \in DOMAIN RerankedDocs : "rerank_score" \in DOMAIN RerankedDocs[i]
        /\ \A i, j \in DOMAIN RerankedDocs :
              i < j => RerankedDocs[i].rerank_score >= RerankedDocs[j].rerank_score
        /\ Len(RerankedDocs) <= rag.rerank_k
        /\ KeepsOrder(out.returned, RerankedDocs)

\* the document reaches the threshold
AboveThreshold(doc) == doc.similarity_score >= rag.min_score

\* C18: every returned document has a similarity score, 1 minus its distance, of at
\* least the threshold; the returned list is the list leaving the rerank stage
\* without the documents under the threshold, the others in their order.
C18_FilterDropsBelowThreshold ==
    (pc = "retrieve_and_rerank" /\ ~IsRaised(out)) =>
        /\ \A i \in DOMAIN out.returned :
              /\ out.returned[i].similarity_score = 100 - out.returned[i].distance
              /\ AboveThreshold(out.returned[i])
        /\ Reranked =>
              /\ ~IsRaised(CallsNamed("rerank_documents")[1].outcome)
              /\ KeepsOrder(out.returned, RerankedDocs)
              /\ \A i \in DOMAIN RerankedDocs :
                    AboveThreshold(RerankedDocs[i]) =>
                        \E j \in DOMAIN out.returned : out.returned[j] = RerankedDocs[i]

\* a document under the threshold left the rerank stage before one that reaches it
C18_Witness ==
    /\ pc = "retrieve_and_rerank"
    /\ Reranked
    /\ out.returned # <<>>
    /\ \E i, j \in DOMAIN RerankedDocs :
          i < j /\ ~AboveThreshold(RerankedDocs[i]) /\ AboveThreshold(RerankedDocs[j])

\* the list of missing requirements the report is built from
MissingRequirements ==
    Get(Get(inp.checklist_result, "requirement_analysis", EmptyDict),
        "missing_requirements", <<>>)

\* the positions of the mandatory entries of the list
MandatoryPositions(list) == {i \in DOMAIN list : list[i].mandatory}

\* C19: the report's missing_document is the name of the first mandatory entry of
\* the list of missing requirements when there is one, else the name of the first
\* entry, and it is None exactly when the list is empty.
C19_MostCriticalMissingDocument ==
    pc = "build_report" =>
        /\ MandatoryPositions(MissingRequirements) # {} =>
              out.missing_document =
                  Some(MissingRequirements[Min(MandatoryPositions(MissingRequirements))].name)
        /\ (MissingRequirements # <<>> /\ MandatoryPositions(MissingRequirements) = {}) =>
              out.missing_document = Some(MissingRequirements[1].name)
        /\ out.missing_document = None <=> MissingRequirements = <<>>

\* an optional requirement is missing first and a mandatory one after it
C19_Witness ==
    /\ pc = "build_report"
    /\ Len(MissingRequirements) >= 2
    /\ ~MissingRequirements[1].mandatory
    /\ MandatoryPositions(MissingRequirements) # {}
    /\ out.missing_document = Some(MissingRequirements[2].name)

\* the urls of the regulatory sources of the gap report
SourceUrls ==
    {s.url : s \in Elements(Get(Get(inp.checklist_result, "regulatory_context", EmptyDict),
                                 "relevant_sources", <<>>))}

\* the citations of the red flags passed to build_report
CitedByRedflags == UNION {Elements(inp.redflags[i].citations) : i \in DOMAIN inp.redflags}

\* no element of the list occurs twice
NoDuplicate(list) == \A i, j \in DOMAIN list : list[i] = list[j] => i = j

\* C20 as stated: the citations of the report have no duplicate and are, as a set,
\* the citations of the red flags and the url of every regulatory source.
C20_CitationsAreUnion ==
    pc = "build_report" =>
        /\ NoDuplicate(out.citations)
        /\ Elements(out.citations) = CitedByRedflags \cup SourceUrls

\* C20, amended: the citations of the report have no duplicate and are, as a set,
\* the citations of the red flags and the url of every regulatory source that has
\* one (a source without url has the empty string for it).
C20_CitationsAreUnionOfNonEmpty ==
    pc = "build_report" =>
        /\ NoDuplicate(out.citations)
        /\ Elements(out.citations) = CitedByRedflags \cup (SourceUrls \ {""})

\* two red flags cite the same text, a red flag cites the url of a source, and a
\* source has no url
C20_Witness ==
    /\ pc = "build_report"
    /\ \E i, j \in DOMAIN inp.redflags :
          i # j /\ Elements(inp.redflags[i].citations)
                       \cap Elements(inp.redflags[j].citations) # {}
    /\ CitedByRedflags \cap SourceUrls # {}
    /\ "" \in SourceUrls
    /\ Len(out.citations) = Cardinality(CitedByRedflags \cup (SourceUrls \ {""}))

\* python-docx reads the file and the path ends in .docx, in any letter case
Parses(file) == is_docx_file(file.file_path) /\ file.content # None

\* C21: analyze_documents skips the files whose parsing raises: the analysis holds
\* the documents of the files that parse, in the order of the input, document_count
\* is their number, and the call raises exactly when no file parses.
C21_ParseFailuresSkipped ==
    pc = "analyze_documents" =>
        LET parsed == SelectSeq(inp.file_paths, Parses)
        IN  IF parsed = <<>>
            THEN "raised" \in DOMAIN out
            ELSE /\ "raised" \notin DOMAIN out
                 /\ Len(out.documents) = Len(parsed)
                 /\ \A i \in DOMAIN parsed :
                       /\ out.documents[i].filename = PathName(parsed[i].file_path)
                       /\ out.documents[i].full_text = parsed[i].content[1]
                 /\ out.document_count = Len(parsed)

\* a file that does not parse comes before one that does, and the analysis is
\* that of the second alone
C21_Witness ==
    /\ pc = "analyze_documents"
    /\ Len(inp.file_paths) = 2
    /\ ~Parses(inp.file_paths[1])
    /\ Parses(inp.file_paths[2])
    /\ "raised" \notin DOMAIN out
    /\ out.document_count = 1

\* the two runs raise alike, or detect the same process and entity type and give
\* the same red flags
SameAnalysis(first, second) ==
    IF "raised" \in DOMAIN first THEN second = first
    ELSE /\ "raised" \notin DOMAIN second
         /\ second.process = first.process
         /\ second.entity_type = first.entity_type
         /\ second.redflags = first.redflags

Orderings(list) ==
    {[i \in DOMAIN list |-> list[p[i]]] :
        p \in {q \in [DOMAIN list -> DOMAIN list] :
                  \A i, j \in DOMAIN list : q[i] = q[j] => i = j}}

\* the (rule, document) pairs of the red flags
IssuePairs(redflags) == {<<redflags[i].rule, redflags[i].document>> : i \in DOMAIN redflags}

\* C23: the analysis does not depend on the order of the files: the same files in
\* any other order give the same process, the same entity type and the same set of
\* (rule, document) issues.
C23_OrderIndependent ==
    (pc = "analyze_documents" /\ "raised" \notin DOMAIN out) =>
        \A file_paths \in Orderings(inp.file_paths) :
            /\ analyze_documents(redflag_rules, file_paths).process = out.process
            /\ analyze_documents(redflag_rules, file_paths).entity_type = out.entity_type
            /\ IssuePairs(analyze_documents(redflag_rules, file_paths).redflags)
                   = IssuePairs(out.redflags)

\* every document of the list has one of the texts
TextsAmong(documents, texts) ==
    documents # <<>> /\ \A i \in DOMAIN documents : documents[i].full_text \in texts

\* C24: a document set whose text is made only of the guarantee-company phrases is
\* detected as a company limited by guarantee, and one made only of the branch
\* phrases as a branch.
C24_PhraseTextsDetected ==
    pc = "detect_entity_type" =>
        /\ TextsAmong(inp.documents, PhraseTexts(GuaranteePhrases)) =>
               out = "Private Company Limited by Guarantee (Non-Financial)"
        /\ TextsAmong(inp.documents, PhraseTexts(BranchPhrases)) =>
               out = "Branch (Non-Financial)"

\* the filenames of the documents whose filename is the name, whatever the case
ExactMatches(documents, document_name) ==
    {Get(documents[i], "filename", "") : i \in {j \in DOMAIN documents : Lower(Get(documents[j], "filename", "")) = Lower(document_name)}}

\* C25: when the filename of some analysed document equals the document name of a
\* red flag case-insensitively, the issue of the report is attributed to such a
\* document; substring matching decides only when no document matches exactly.
C25_ExactMatchPreferred ==
    pc = "build_report" =>
        \A i \in DOMAIN inp.redflags :
            ExactMatches(inp.analysis_result.documents, inp.redflags[i].document) # {} =>
                out.issues_found[i].document
                    \in ExactMatches(inp.analysis_result.documents, inp.redflags[i].document)

\* the probes of the structural check, in the order of the code, with the name each
\* has in the message
StructuralProbes ==
    <<[check |-> "has_signatory_name", element |-> "signatory name"],
      [check |-> "has_capacity", element |-> "capacity"],
      [check |-> "has_signature_or_e-sign", element |-> "signature"],
      [check |-> "has_date", element |-> "date"]>>

\* the probe finds what it looks for in the text
ProbePasses(check, doc_text) ==
    CASE check = "has_signatory_name" -> HasSignatoryName(doc_text)
      [] check = "has_capacity" ->
            \E w \in {"director", "officer", "authorized", "capacity"} : ReSearchI(w, doc_text)
      [] check = "has_signature_or_e-sign" ->
            \E w \in {"signature", "signed", "electronic signature", "e-sign"} : ReSearchI(w, doc_text)
      [] check = "has_date" -> HasDate(doc_text)

\* the positions of the probes the rule requests and the text fails
FailedProbes(rule_config, doc_text) ==
    {k \in DOMAIN StructuralProbes :
        /\ \E c \in DOMAIN Get(rule_config, "checks", <<>>) :
              rule_config.checks[c] = StructuralProbes[k].check
        /\ ~ProbePasses(StructuralProbes[k].check, doc_text)}

RECURSIVE ElementsFrom(_, _)
\* the message names of the probes at the positions from k on, in order
ElementsFrom(positions, k) ==
    IF k > Len(StructuralProbes) THEN <<>>
    ELSE (IF k \in positions THEN <<StructuralProbes[k].element>> ELSE <<>>)
         \o ElementsFrom(positions, k + 1)

\* C26: a structural rule gives an issue exactly when a probe of its checks fails
\* on the text, and the message of the issue lists the failed requested probes, and
\* only them, in the order signatory name, capacity, signature, date.
C26_StructuralIssueListsFailedProbes ==
    pc = "_check_structural_rule" =>
        LET failed == FailedProbes(inp.rule_config, inp.doc_text)
        IN  /\ out # None <=> failed # {}
            /\ out # None =>
                  /\ out[1].issue = "Missing structural elements: " \o Join(ElementsFrom(failed, 1), ", ")
                  /\ out[1].document = inp.doc_name
                  /\ out[1].rule = inp.rule_name

\* a text passes a requested probe and fails another, and a probe that fails is not
\* requested
C26_Witness ==
    /\ pc = "_check_structural_rule"
    /\ out # None
    /\ \E k \in DOMAIN StructuralProbes :
          /\ \E c \in DOMAIN inp.rule_config.checks :
                inp.rule_config.checks[c] = StructuralProbes[k].check
          /\ ProbePasses(StructuralProbes[k].check, inp.doc_text)
    /\ \E k \in DOMAIN StructuralProbes :
          /\ ~ProbePasses(StructuralProbes[k].check, inp.doc_text)
          /\ k \notin FailedProbes(inp.rule_config, inp.doc_text)

\* the rule lists the indicator
ListsIndicator(rule_config, indicator) ==
    \E k \in DOMAIN Get(rule_config, "indicators_any", <<>>) :
        Contains(indicator, rule_config.indicators_any[k])

\* the text holds a [[...]] placeholder or a run of three underscores or more
HasTemplateField(doc_text) ==
    \/ \E i \in 1..Len(doc_text), j \in 1..Len(doc_text) :
          /\ j >= i + 2
          /\ OccursAt("[[", doc_text, i)
          /\ OccursAt("]]", doc_text, j)
    \/ \E i \in 1..Len(doc_text) : OccursAt("___", doc_text, i)

\* the text matches an indicator the rule lists
MatchesIndicator(rule_config, doc_text) ==
    \/ ListsIndicator(rule_config, "Template fields left blank") /\ HasTemplateField(doc_text)
    \/ ListsIndicator(rule_config, "Lorem ipsum") /\ Contains("lorem ipsum", Lower(doc_text))

\* C27: a heuristic rule gives an issue for a document whose text holds a template
\* field when it lists "Template fields left blank", or holds "lorem ipsum" in any
\* letter case when it lists "Lorem ipsum"; the issue carries the severity of the
\* rule, Low when it has none; a document matching no listed indicator gives none,
\* and over a document list the rule gives one issue per matching document.
C27_HeuristicIndicators ==
    /\ pc = "_check_heuristic_rule" =>
          /\ out # None <=> MatchesIndicator(inp.rule_config, inp.doc_text)
          /\ out # None =>
                /\ out[1].severity = Get(inp.rule_config, "severity", "Low")
                /\ out[1].document = inp.doc_name
                /\ out[1].rule = inp.rule_name
    /\ (pc = "_apply_redflag_rule" /\ inp.rule_config.kind = "heuristic") =>
          LET matching == {d \in DOMAIN inp.documents : MatchesIndicator(inp.rule_config, inp.documents[d].full_text)}
          IN  /\ Len(out) = Cardinality(matching)
              /\ \A d \in matching :
                    \E i \in DOMAIN out :
                        /\ out[i].document = inp.documents[d].filename
                        /\ out[i].severity = Get(inp.rule_config, "severity", "Low")

\* a rule without severity gives an issue on a run of underscores
C27_Witness ==
    /\ pc = "_check_heuristic_rule"
    /\ out # None
    /\ "severity" \notin DOMAIN inp.rule_config
    /\ Contains("___", inp.doc_text)
    /\ out[1].severity = "Low"

\* the names of the requirements at the positions, in checklist order
NamesAt(requirements, positions) ==
    [k \in 1..Cardinality(positions) |-> Get(requirements[SortedSeq(positions)[k]], "name", "")]

\* the names of the entries of a result list
EntryNames(entries) == [k \in DOMAIN entries |-> entries[k].name]

\* C28: check_requirements skips no requirement, whatever its applies_if: each
\* requirement of the checklist is in exactly one of found_requirements and
\* missing_requirements, each list is in checklist order, and the two lengths add
\* up to total_requirements.
C28_NoRequirementSkipped ==
    pc = "check_requirements" =>
        LET requirements == Get(inp.checklist, "requirements", <<>>)
        IN  /\ out.total_requirements = Len(requirements)
            /\ Len(out.found_requirements) + Len(out.missing_requirements)
                   = out.total_requirements
            /\ \E found \in SUBSET DOMAIN requirements :
                  /\ EntryNames(out.found_requirements) = NamesAt(requirements, found)
                  /\ EntryNames(out.missing_requirements)
                         = NamesAt(requirements, DOMAIN requirements \ found)

\* a checklist with a requirement under a condition other than "always", some
\* requirements found and some missing
C28_Witness ==
    /\ pc = "check_requirements"
    /\ \E i \in DOMAIN Get(inp.checklist, "requirements", <<>>) :
          Get(inp.checklist.requirements[i], "applies_if", "always") # "always"
    /\ out.found_requirements # <<>>
    /\ out.missing_requirements # <<>>

\* the content channel fires only with the pattern channel
ContentImpliesPattern ==
    pc = "_check_requirement_presence" =>
        (ContentChannel(inp.req_name, inp.doc_contents) =>
            PatternChannel(inp.req_name, inp.combined_content))

\* C29 as stated: when the content channel fires the pattern channel fires too, and
\* the confidence of a found requirement is one of 0.1, 0.4, 0.6, 0.7 and 1.0.
C29_ConfidenceValues ==
    /\ ContentImpliesPattern
    /\ (pc = "_check_requirement_presence" /\ out # None) =>
          out[1].confidence \in {Double(1, 0), Double(4, 0), Double(6, 0), Double(7, 0),
                                 Double(10, 0)}

\* C29: when the content channel fires the pattern channel fires too, so that the
\* confidence of a found requirement is one of 0.1, 0.4, 0.6, 0.7 and, when the
\* three channels fire, the float sum 0.6 + 0.3 + 0.1 = 0.9999999999999999; it is
\* never 0.3 nor 0.9 (nor the float sum of 0.6 and 0.3).
C29_ConfidenceValuesAsFloats ==
    /\ ContentImpliesPattern
    /\ (pc = "_check_requirement_presence" /\ out # None) =>
          /\ out[1].confidence \in {Double(1, 0), Double(4, 0), Double(6, 0), Double(7, 0),
                                    Double(10, 1)}
          /\ out[1].confidence \notin {Double(3, 0), Double(9, 0), Double(9, 1)}
          /\ out[1].confidence = Double(10, 1) <=>
                /\ NameChannel(inp.req_name, inp.doc_names)
                /\ ContentChannel(inp.req_name, inp.doc_contents)

\* a requirement found by its name in a text and not by a file name
C29_Witness ==
    /\ pc = "_check_requirement_presence"
    /\ ContentChannel(inp.req_name, inp.doc_contents)
    /\ ~NameChannel(inp.req_name, inp.doc_names)
    /\ out # None
    /\ out[1].confidence = Double(4, 0)

\* the band of a compliance score
BandOfScore(score) ==
    IF ~FractionBelow(score, 9, 10) THEN "Compliant"
    ELSE IF ~FractionBelow(score, 7, 10) THEN "Mostly Compliant"
    ELSE IF ~FractionBelow(score, 5, 10) THEN "Partially Compliant"
    ELSE "Non-Compliant"

\* the report has one suggestion per missing requirement of the payload and one
\* issue per red flag, in the same order
SuggestionsAndIssuesInOrder ==
    /\ EntryNames(out.suggestions) = EntryNames(MissingRequirements)
    /\ [k \in DOMAIN out.issues_found |-> out.issues_found[k].issue]
           = [k \in DOMAIN inp.redflags |-> Get(inp.redflags[k], "issue", "")]

\* the number of requirements of the checklist behind the payload
RequirementCount(checklist) ==
    IF checklist = None THEN 0 ELSE Len(Get(checklist[1], "requirements", <<>>))

\* C30 as stated: for every payload of generate_gap_report and every red-flag list
\* the report's compliance_status is the band of its compliance_score, its
\* required_documents is the number of requirements of the checklist, and it has
\* one suggestion per missing requirement and one issue per red flag, in order.
C30_ReportConsistent ==
    pc = "build_report" =>
        /\ out.compliance_status = BandOfScore(out.compliance_score)
        /\ out.required_documents = RequirementCount(inp.checklist)
        /\ SuggestionsAndIssuesInOrder

\* C30: the consistency holds for every payload that is not the error payload; for
\* the error payload the report has the status "Unknown" with the score 0, no
\* required document, no suggestion, and one issue per red flag.
C30_ReportConsistentUnlessError ==
    pc = "build_report" =>
        /\ "error" \notin DOMAIN inp.checklist_result =>
              /\ out.compliance_status = BandOfScore(out.compliance_score)
              /\ out.required_documents = RequirementCount(inp.checklist)
        /\ "error" \in DOMAIN inp.checklist_result =>
              /\ out.compliance_status = "Unknown"
              /\ out.compliance_score = Fraction(0, 1)
              /\ out.required_documents = 0
              /\ out.suggestions = <<>>
        /\ SuggestionsAndIssuesInOrder

\* a report with a suggestion of medium priority and several issues
C30_Witness ==
    /\ pc = "build_report"
    /\ "error" \notin DOMAIN inp.checklist_result
    /\ \E k \in DOMAIN out.suggestions : out.suggestions[k].priority = "Medium"
    /\ Len(out.suggestions) = 2
    /\ Len(out.issues_found) > 1
    /\ out.required_documents = 2

====
